---- MODULE Spec2Model ----
(***************************************************************************)
(* A model of the micro-search log index: the token hashing of ufhg.rs,    *)
(* the bucketed map of utils/buggu_hash_set.rs, the index and query        *)
(* executor of logdb.rs with its query parser, the stand-alone parser of   *)
(* query.rs, and the slab-based index of tll.rs.                           *)
(*                                                                         *)
(* A u64 is kept as a tuple of eight bytes, least significant first, so    *)
(* that wrapping 64-bit arithmetic is computed exactly.  A string is a     *)
(* tuple of one-character strings; byte(c) is the ASCII code of c.         *)
(***************************************************************************)
EXTENDS Integers, Sequences, FiniteSets, TLC

----------------------------------------------------------------------------
(* The value of an expression at the values of its arguments: an argument  *)
(* bound in a set constructor over a singleton is evaluated once.          *)

The(S) == CHOOSE r \in S : TRUE

\* the elements of a sequence
SeqSet(s) == {s[i] : i \in 1..Len(s)}

NoDuplicates(s) == Cardinality(SeqSet(s)) = Len(s)

----------------------------------------------------------------------------
(* 64-bit words (u64, wrapping_mul, wrapping_add, shifts) *)

\* the little-endian bytes of a small natural number, k bytes wide
NatToBytes(n, k) ==
    The({[i \in 1..k |-> IF i > 4 THEN 0 ELSE (m \div (256 ^ (i - 1))) % 256] @@ <<>> : m \in {n}})

\* `x as u64` for a value that fits a machine integer
U64(n) == NatToBytes(n, 8)

\* byte i (from 0) of a word, zero beyond its width
ByteAt(a, i) == IF i + 1 <= Len(a) THEN a[i + 1] ELSE 0

\* the value of a byte tuple known to be small (an index, a length)
BytesToNat(b) ==
    The({ByteAt(x, 0) + 256 * ByteAt(x, 1) + 65536 * ByteAt(x, 2) + 16777216 * ByteAt(x, 3) :
         x \in {b}})

\* one product of the schoolbook multiplication: byte j of a by byte p - j of b
MulTerm(a, b, p, j) == IF j <= p THEN ByteAt(a, j) * ByteAt(b, p - j) ELSE 0

\* the column sum of the schoolbook product of two u64 at byte position p
MulColumn(a, b, p) ==
    MulTerm(a, b, p, 0) + MulTerm(a, b, p, 1) + MulTerm(a, b, p, 2) + MulTerm(a, b, p, 3)
    + MulTerm(a, b, p, 4) + MulTerm(a, b, p, 5) + MulTerm(a, b, p, 6) + MulTerm(a, b, p, 7)

\* the low n bytes of a * b, n <= 16: the column sums c, with the carry k
\* into each pair of columns
MulBytes(a, b, n) ==
    The({LET k1 == (c[1] + 256 * c[2]) \div 65536
             k2 == (c[3] + 256 * c[4] + k1) \div 65536
             k3 == (c[5] + 256 * c[6] + k2) \div 65536
             k4 == (c[7] + 256 * c[8] + k3) \div 65536
             k5 == (c[9] + 256 * c[10] + k4) \div 65536
             k6 == (c[11] + 256 * c[12] + k5) \div 65536
             k7 == (c[13] + 256 * c[14] + k6) \div 65536
         IN  The({[i \in 1..n |-> IF i % 2 = 1 THEN (c[i] + k[(i + 1) \div 2]) % 256
                                 ELSE ((c[i - 1] + 256 * c[i] + k[i \div 2]) \div 256) % 256] @@ <<>> :
                  k \in {<<0, k1, k2, k3, k4, k5, k6, k7>>}}) :
         c \in {[p \in 1..16 |-> MulColumn(a, b, p - 1)] @@ <<>>}})

\* u64::wrapping_mul
wrapping_mul(a, b) == The({MulBytes(x, y, 8) : x \in {a}, y \in {b}})

\* (a as u128) * (b as u128), sixteen bytes
widening_mul(a, b) == The({MulBytes(x, y, 16) : x \in {a}, y \in {b}})

\* the sum of the bytes lo..lo+2 (from 0) of a and of b, as a number
AddLimb(a, b, lo) ==
    (ByteAt(a, lo) + ByteAt(b, lo)) + 256 * (ByteAt(a, lo + 1) + ByteAt(b, lo + 1))
    + 65536 * (ByteAt(a, lo + 2) + ByteAt(b, lo + 2))

\* the nine bytes of a + b for two u64: three bytes at a time, with the carry
AddBytes(a, b) ==
    The({The({The({<<v0 % 256, (v0 \div 256) % 256, (v0 \div 65536) % 256,
                     v1 % 256, (v1 \div 256) % 256, (v1 \div 65536) % 256,
                     v2 % 256, (v2 \div 256) % 256, v2 \div 65536>> :
                   v2 \in {ByteAt(a, 6) + ByteAt(b, 6) + 256 * (ByteAt(a, 7) + ByteAt(b, 7))
                           + (v1 \div 16777216)}}) :
              v1 \in {AddLimb(a, b, 3) + (v0 \div 16777216)}}) :
         v0 \in {AddLimb(a, b, 0)}})

\* u64::wrapping_add
wrapping_add(a, b) == The({SubSeq(AddBytes(x, y), 1, 8) : x \in {a}, y \in {b}})

\* the carry out of a + b: TRUE when the unwrapped sum does not fit 64 bits
AddCarryOut(a, b) == The({AddBytes(x, y)[9] > 0 : x \in {a}, y \in {b}})

\* TRUE when a * b does not fit 64 bits
MulOverflows(a, b) == \E i \in 9..16 : widening_mul(a, b)[i] # 0

\* bit j of x ^ y, in its place
XorBit(x, y, j) == (2 ^ j) * (((x \div (2 ^ j)) + (y \div (2 ^ j))) % 2)

\* x ^ y for two bytes
XorNat(x, y) ==
    XorBit(x, y, 0) + XorBit(x, y, 1) + XorBit(x, y, 2) + XorBit(x, y, 3)
    + XorBit(x, y, 4) + XorBit(x, y, 5) + XorBit(x, y, 6) + XorBit(x, y, 7)

\* a ^ b
xor64(a, b) == The({[i \in 1..8 |-> XorNat(x[i], y[i])] @@ <<>> : x \in {a}, y \in {b}})

\* bit j of x & y, in its place
AndBit(x, y, j) == (2 ^ j) * ((x \div (2 ^ j)) % 2) * ((y \div (2 ^ j)) % 2)

\* x & y for two bytes
AndNat(x, y) ==
    AndBit(x, y, 0) + AndBit(x, y, 1) + AndBit(x, y, 2) + AndBit(x, y, 3)
    + AndBit(x, y, 4) + AndBit(x, y, 5) + AndBit(x, y, 6) + AndBit(x, y, 7)

\* a & b
and64(a, b) == The({[i \in 1..8 |-> AndNat(x[i], y[i])] @@ <<>> : x \in {a}, y \in {b}})

\* 1 << r as a word, 0 <= r <= 63
Pow2Word(r) == [i \in 1..8 |-> IF i - 1 = r \div 8 THEN 2 ^ (r % 8) ELSE 0]

\* a << r and a >> r, 1 <= r <= 63
shl64(a, r) == wrapping_mul(a, Pow2Word(r))
shr64(a, r) == SubSeq(widening_mul(a, Pow2Word(64 - r)), 9, 16)

\* u64::rotate_left
rotate_left(a, r) == The({wrapping_add(shl64(x, r), shr64(x, 64 - r)) : x \in {a}})

\* a < b on u64
LessFrom(a, b, n) ==
    \E i \in 1..n : a[i] < b[i] /\ \A j \in (i + 1)..n : a[j] = b[j]
less64(a, b) == The({LessFrom(x, y, 8) : x \in {a}, y \in {b}})

\* a % m for a modulus small enough to keep the running remainder in range
RECURSIVE ModFrom(_, _, _)
ModFrom(a, m, i) ==
    IF i > Len(a) THEN 0 ELSE (ModFrom(a, m, i + 1) * 256 + a[i]) % m
mod64(a, m) == The({ModFrom(x, m, 1) : x \in {a}})

\* 0u64.wrapping_sub(x)
wrapping_neg(a) == The({wrapping_add([i \in 1..8 |-> 255 - x[i]] @@ <<>>, U64(1)) : x \in {a}})

----------------------------------------------------------------------------
(* Bytes of strings *)

\* the characters of codes 32..95 and of codes 97..126, in code order
Printable ==
    <<" ", "!", "\"", "#", "$", "%", "&", "'", "(", ")", "*", "+", ",", "-", ".", "/",
      "0", "1", "2", "3", "4", "5", "6", "7", "8", "9", ":", ";", "<", "=", ">", "?",
      "@", "A", "B", "C", "D", "E", "F", "G", "H", "I", "J", "K", "L", "M", "N", "O",
      "P", "Q", "R", "S", "T", "U", "V", "W", "X", "Y", "Z", "[", "\\", "]", "^", "_">>
LowerCase ==
    <<"a", "b", "c", "d", "e", "f", "g", "h", "i", "j", "k", "l", "m", "n", "o",
      "p", "q", "r", "s", "t", "u", "v", "w", "x", "y", "z", "{", "|", "}", "~">>

\* s.as_bytes()[i]: the ASCII code of a character
byte(c) ==
    IF c = "\t" THEN 9
    ELSE IF c = "\n" THEN 10
    ELSE IF c = "\r" THEN 13
    ELSE IF \E i \in 1..Len(LowerCase) : LowerCase[i] = c
         THEN 96 + (CHOOSE i \in 1..Len(LowerCase) : LowerCase[i] = c)
    ELSE 31 + (CHOOSE i \in 1..Len(Printable) : Printable[i] = c)

is_whitespace(c) == byte(c) \in {32, 9, 10, 13}

----------------------------------------------------------------------------
(* utils/buggu_ultra_fast_hash.rs *)

\* 0x517cc1b727220a95
FAST_K1 == <<149, 10, 34, 39, 183, 193, 124, 81>>

buggu_hash_u64_minimal(value) == wrapping_mul(value, FAST_K1)

buggu_hash_u64_branchless(value) ==
    The({xor64(wrapping_mul(adjusted, FAST_K1), shr64(adjusted, 32)) :
         adjusted \in {IF value = U64(0) THEN U64(1) ELSE value}})

\* the number of leading bytes the unaligned u16 reads of lightning_hash_str_64 cover
packed_len(len) ==
    IF len = 1 THEN 1 ELSE IF len <= 3 THEN 2 ELSE IF len <= 5 THEN 4 ELSE 6

lightning_hash_str_64(s) ==
    LET data == [i \in 1..8 |-> IF i <= packed_len(Len(s)) THEN byte(s[i]) ELSE 0]
    IN  IF Len(s) = 0 THEN FAST_K1 ELSE buggu_hash_u64_minimal(data)

----------------------------------------------------------------------------
(* ufhg.rs *)

\* the match on a byte in lightning_hash_str; 0 stands for the `_` arm
letter_pos(c) ==
    LET b == byte(c)
    IN  IF b >= 97 /\ b <= 122 THEN b - 97 + 1
        ELSE IF b >= 65 /\ b <= 90 THEN b - 65 + 27
        ELSE 0

\* one step of the accumulation: result * 10 + pos, or result * 100 + pos
\* (the value where the step fits u64, and in a build without overflow checks)
hash_step(result, pos) ==
    wrapping_add(wrapping_mul(result, U64(IF pos < 10 THEN 10 ELSE 100)), U64(pos))

\* the accumulation loop over the first n bytes of an all-letter string
RECURSIVE hash_letters(_, _)
hash_letters(s, n) ==
    IF n = 0 THEN U64(0)
    ELSE The({hash_step(result, letter_pos(s[n])) : result \in {hash_letters(s, n - 1)}})

lightning_hash_str(s) ==
    IF s = <<>> THEN U64(0)
    ELSE IF \E i \in 1..Len(s) : letter_pos(s[i]) = 0 THEN lightning_hash_str_64(s)
    ELSE hash_letters(s, Len(s))

\* x after `count` rounds of x = x * 100 + 32
RECURSIVE whitespace_digits(_)
whitespace_digits(count) ==
    IF count = 0 THEN U64(0)
    ELSE The({wrapping_add(wrapping_mul(x, U64(100)), U64(32)) : x \in {whitespace_digits(count - 1)}})

process_whitespace_len(len) ==
    buggu_hash_u64_minimal(
        wrapping_add(wrapping_mul(whitespace_digits(len % 8), U64(1000)), U64(len)))

\* the end (exclusive) of the run of whitespace (ws) or of non-whitespace starting at i
RECURSIVE run_end(_, _, _)
run_end(s, i, ws) ==
    IF i > Len(s) \/ is_whitespace(s[i]) # ws THEN i ELSE run_end(s, i + 1, ws)

RECURSIVE tokenize_from(_, _)
tokenize_from(s, i) ==
    IF i > Len(s) THEN <<>>
    ELSE The({The({<<token>> \o tokenize_from(s, j) :
                   token \in {IF ws THEN process_whitespace_len(j - i)
                                     ELSE lightning_hash_str(SubSeq(s, i, j - 1))}}) :
              ws \in {is_whitespace(s[i])}, j \in {run_end(s, i, is_whitespace(s[i]))}})

\* the word_hashes vector tokenize_zero_copy returns
tokenize_zero_copy(message) == tokenize_from(message, 1)

\* the words of s: its maximal runs of non-whitespace, in order
RECURSIVE words_from(_, _)
words_from(s, i) ==
    IF i > Len(s) THEN <<>>
    ELSE IF is_whitespace(s[i]) THEN words_from(s, i + 1)
    ELSE LET j == run_end(s, i, FALSE)
         IN  <<SubSeq(s, i, j - 1)>> \o words_from(s, j)

\* seq_hash after the first n words: hash(word) * 31 + seq_hash, wrapping
RECURSIVE seq_hash_upto(_, _)
seq_hash_upto(ws, n) ==
    IF n = 0 THEN U64(0)
    ELSE The({wrapping_add(wrapping_mul(hash, U64(31)), seq_hash) :
              hash \in {lightning_hash_str(ws[n])}, seq_hash \in {seq_hash_upto(ws, n - 1)}})

string_to_u64_to_seq_hash(s) == seq_hash_upto(words_from(s, 1), Len(words_from(s, 1)))

RECURSIVE sequence_hash(_)
sequence_hash(seq) ==
    IF seq = <<>> THEN U64(0)
    ELSE The({wrapping_add(wrapping_mul(h, U64(31)), seq[Len(seq)]) :
              h \in {sequence_hash(SubSeq(seq, 1, Len(seq) - 1))}})

----------------------------------------------------------------------------
(* utils/buggu_random_generator.rs *)

BugguRng_new(seed) ==
    The({[state_a |-> state_a, state_b |-> state_b] :
         state_a \in {buggu_hash_u64_branchless(seed)},
         state_b \in {buggu_hash_u64_branchless(seed)}})

\* next_raw_scalar: the value drawn and the generator after the draw
next_raw(rng) ==
    The({[result |-> wrapping_add(s0, r.state_b),
          rng    |-> [state_a |-> xor64(xor64(rotate_left(s0, 24), s1), shl64(s1, 16)),
                      state_b |-> rotate_left(s1, 37)]] :
         r \in {rng}, s0 \in {rng.state_a}, s1 \in {xor64(rng.state_b, rng.state_a)}})

is_power_of_two(n) == \E k \in 0..30 : n = 2 ^ k

next_power_of_two(n) == 2 ^ (CHOOSE k \in 0..30 : 2 ^ k >= n /\ (k = 0 \/ 2 ^ (k - 1) < n))

\* buggu_range_small with buggu_range_pow2, for 2 <= range <= 256
RECURSIVE buggu_range_small(_, _)
buggu_range_small(rng, range) ==
    The({The({IF is_power_of_two(range) THEN low % range
              ELSE The({IF candidate < range THEN candidate
                        ELSE The({buggu_range_small(next, range) : next \in {step.rng}}) :
                        candidate \in {low % next_power_of_two(range)}}) :
              low \in {step.result[1] + 256 * step.result[2]}}) :
         step \in {next_raw(rng)}})

\* the rejection loop of buggu_range_unbiased
RECURSIVE lemire_loop(_, _, _, _)
lemire_loop(rng, range, multiresult, threshold) ==
    IF less64(SubSeq(multiresult, 1, 8), U64(threshold))
    THEN The({The({lemire_loop(next, range, product, threshold) :
                   next \in {step.rng}, product \in {widening_mul(step.result, U64(range))}}) :
              step \in {next_raw(rng)}})
    ELSE BytesToNat(SubSeq(multiresult, 9, 16))

buggu_range_unbiased(rng, range) ==
    The({The({IF less64(SubSeq(multiresult, 1, 8), U64(range))
              THEN The({lemire_loop(next, range, multiresult, threshold) :
                        next \in {step.rng},
                        threshold \in {mod64(wrapping_neg(U64(range)), range)}})
              ELSE BytesToNat(SubSeq(multiresult, 9, 16)) :
              multiresult \in {widening_mul(step.result, U64(range))}}) :
         step \in {next_raw(rng)}})

\* BugguRng::range(0, max) for max < 2^31
rng_range(rng, max) ==
    IF 0 >= max THEN 0
    ELSE IF max + 1 <= 256 THEN buggu_range_small(rng, max + 1)
    ELSE buggu_range_unbiased(rng, max + 1)

----------------------------------------------------------------------------
(* logdb.rs: the query syntax tree and the parser that LogDB::query calls *)

\* Option<T>
None == [some |-> FALSE]
Some(v) == [some |-> TRUE, v |-> v]

\* QueryNode
Term(w) == [type |-> "Term", w |-> w]
Phrase(p) == [type |-> "Phrase", p |-> p]
FieldTerm(f, v) == [type |-> "FieldTerm", f |-> f, v |-> v]
NumericRange(f, lo, hi) == [type |-> "NumericRange", f |-> f, lo |-> lo, hi |-> hi]
Contains(w) == [type |-> "Contains", w |-> w]
And(children) == [type |-> "And", children |-> children]
Or(children) == [type |-> "Or", children |-> children]
Not(child) == [type |-> "Not", child |-> child]

U64_MAX == <<255, 255, 255, 255, 255, 255, 255, 255>>

\* str::split_whitespace from position i on
RECURSIVE split_from(_, _)
split_from(s, i) ==
    IF i > Len(s) THEN <<>>
    ELSE IF is_whitespace(s[i]) THEN split_from(s, i + 1)
    ELSE LET e == run_end(s, i, FALSE)
         IN  <<SubSeq(s, i, e - 1)>> \o split_from(s, e)

split_whitespace(s) == split_from(s, 1)

starts_with(s, prefix) ==
    Len(s) >= Len(prefix) /\ SubSeq(s, 1, Len(prefix)) = prefix

ends_with(s, suffix) ==
    Len(s) >= Len(suffix) /\ SubSeq(s, Len(s) - Len(suffix) + 1, Len(s)) = suffix

\* str::trim_matches(c)
trim_matches(s, c) ==
    LET keep == {i \in 1..Len(s) : s[i] # c}
    IN  IF keep = {} THEN <<>>
        ELSE SubSeq(s, CHOOSE i \in keep : \A j \in keep : i <= j,
                       CHOOSE i \in keep : \A j \in keep : j <= i)

\* the position of the first ':' of a token, 0 when it has none
colon_at(tok) ==
    IF \E i \in 1..Len(tok) : tok[i] = ":"
    THEN CHOOSE i \in 1..Len(tok) : tok[i] = ":" /\ \A j \in 1..(i - 1) : tok[j] # ":"
    ELSE 0

Digits == <<"0", "1", "2", "3", "4", "5", "6", "7", "8", "9">>

digit_value(c) == IF \E d \in 1..10 : Digits[d] = c THEN (CHOOSE d \in 1..10 : Digits[d] = c) - 1 ELSE 10

\* one more digit: None when the character is no digit or the value leaves u64
push_digit(prev, d) ==
    IF ~ prev.some \/ d = 10 THEN None
    ELSE IF MulOverflows(prev.v, U64(10)) THEN None
    ELSE IF AddCarryOut(wrapping_mul(prev.v, U64(10)), U64(d)) THEN None
    ELSE Some(wrapping_add(wrapping_mul(prev.v, U64(10)), U64(d)))

\* the value of the first n digits
RECURSIVE parse_digits(_, _)
parse_digits(s, n) ==
    IF n = 0 THEN Some(U64(0)) ELSE push_digit(parse_digits(s, n - 1), digit_value(s[n]))

\* str::parse::<u64>().unwrap_or(default)
parse_u64_or(s, default) ==
    LET digits == IF Len(s) > 0 /\ s[1] = "+" THEN Tail(s) ELSE s
        r      == IF Len(digits) = 0 THEN None ELSE parse_digits(digits, Len(digits))
    IN  IF r.some THEN r.v ELSE default

\* the index of the last token a quoted value takes: the first from i on that ends with a quote
quote_end(toks, i) ==
    IF \E j \in i..Len(toks) : ends_with(toks[j], <<"\"">>)
    THEN CHOOSE j \in i..Len(toks) :
            /\ ends_with(toks[j], <<"\"">>)
            /\ \A k \in i..(j - 1) : ~ ends_with(toks[k], <<"\"">>)
    ELSE Len(toks)

\* val after push(' '), push_str(nxt) for the tokens i..j
RECURSIVE push_tokens(_, _, _, _)
push_tokens(val, toks, i, j) ==
    IF j < i THEN val ELSE push_tokens(val, toks, i, j - 1) \o <<" ">> \o toks[j]

s_level == <<"l", "e", "v", "e", "l">>
s_service == <<"s", "e", "r", "v", "i", "c", "e">>
s_contains == <<"c", "o", "n", "t", "a", "i", "n", "s">>
s_timestamp == <<"t", "i", "m", "e", "s", "t", "a", "m", "p">>

\* a parser whose contains: items push no node
field_nodes_no_contains(tok, field, val) ==
    IF field = s_level THEN <<FieldTerm(s_level, val)>>
    ELSE IF field = s_service THEN <<FieldTerm(s_service, val)>>
    ELSE IF field = s_contains THEN <<>>
    ELSE <<Term(tok)>>

\* the nodes a field:value token pushes
field_nodes(tok, field, val) ==
    IF field = s_level THEN <<FieldTerm(s_level, val)>>
    ELSE IF field = s_service THEN <<FieldTerm(s_service, val)>>
    ELSE IF field = s_contains THEN <<Contains(val)>>
    ELSE IF field = s_timestamp
         THEN IF starts_with(val, <<">", "=">>)
              THEN <<NumericRange(s_timestamp, parse_u64_or(SubSeq(val, 3, Len(val)), U64(0)), U64_MAX)>>
              ELSE IF starts_with(val, <<"<", "=">>)
              THEN <<NumericRange(s_timestamp, U64(0), parse_u64_or(SubSeq(val, 3, Len(val)), U64_MAX))>>
              ELSE <<>>
    ELSE <<Term(tok)>>

\* the nodes of the tokens from i on
RECURSIVE parse_from(_, _)
parse_from(toks, i) ==
    IF i > Len(toks) THEN <<>>
    ELSE LET tok == toks[i]
             c   == colon_at(tok)
         IN  IF c > 0
             THEN LET field == SubSeq(tok, 1, c - 1)
                      val   == SubSeq(tok, c + 1, Len(tok))
                      open  == starts_with(val, <<"\"">>) /\ ~ ends_with(val, <<"\"">>)
                      last  == IF open THEN quote_end(toks, i + 1) ELSE i
                      full  == IF open THEN push_tokens(val, toks, i + 1, last) ELSE val
                  IN  field_nodes(tok, field, trim_matches(full, "\"")) \o parse_from(toks, last + 1)
             ELSE IF starts_with(tok, <<"\"">>)
             THEN <<Phrase(trim_matches(tok, "\""))>> \o parse_from(toks, i + 1)
             ELSE <<Term(tok)>> \o parse_from(toks, i + 1)

parse_query(q) ==
    LET nodes == parse_from(split_whitespace(q), 1)
    IN  IF Len(nodes) = 1 THEN nodes[1] ELSE And(nodes)

----------------------------------------------------------------------------
(* The arguments the operations are called with *)

\* the most documents ingested in a behaviour
MaxDocs == 2

s_aa == <<"a", "a">>
s_b == <<"b">>
s_k == <<"k">>
s_content == <<"c", "o", "n", "t", "e", "n", "t">>
s_zz == <<"z", "z">>
sp == <<" ">>
quote == <<"\"">>

\* content: &str of upsert_log and upsert_simple
Contents == {s_aa, s_aa \o sp \o s_b}

\* level: Option<String>; the names "k" and "aa" have the same lightning_hash_str
LevelNames == {s_k, s_aa}
Levels == {None} \cup {Some(l) : l \in LevelNames}

\* service: Option<String>
ServiceNames == {s_b}
Services == {None} \cup {Some(v) : v \in ServiceNames}

\* s of upsert_token
TokenStrings == {s_zz}

\* q: &str of query
q_level(l) == s_level \o <<":">> \o l
q_service(v) == s_service \o <<":">> \o v
q_both(a, b) == a \o sp \o b
q_phrase(p) == quote \o p \o quote
q_and(a, b) == a \o sp \o <<"A", "N", "D">> \o sp \o b
q_or(a, b) == a \o sp \o <<"O", "R">> \o sp \o b
q_not(a) == <<"N", "O", "T">> \o sp \o a
q_contains(w) == s_contains \o <<":">> \o w
q_timestamp(v) == s_timestamp \o <<":">> \o v
ge_0 == <<">", "=", "0">>

\* an item whose field is none of those parse_query knows
q_other == s_content \o <<":">> \o s_aa

\* the items the queries are made of: bare words and field:value items
WordItems == {s_aa, s_b, s_zz}
FieldItems == {q_level(l) : l \in LevelNames} \cup {q_service(v) : v \in ServiceNames}
Items == WordItems \cup FieldItems

Queries ==
    {s_aa, s_b, s_zz, q_level(s_k), q_service(s_b),
     q_both(q_level(s_k), q_service(s_b)), q_both(s_aa, s_b),
     q_phrase(s_aa \o sp \o s_b),
     q_or(s_aa, s_b), q_not(s_b), q_and(s_aa, s_b),
     q_contains(s_aa), q_timestamp(ge_0), q_other}

\* the descriptor upsert_log formats from its arguments
descriptor(content, level, service) ==
    IF level.some /\ service.some
    THEN s_level \o sp \o level.v \o sp \o s_service \o sp \o service.v \o sp \o s_content \o sp \o content
    ELSE IF level.some
    THEN s_level \o sp \o level.v \o sp \o s_content \o sp \o content
    ELSE IF service.some
    THEN s_service \o sp \o service.v \o sp \o s_content \o sp \o content
    ELSE s_content \o sp \o content

----------------------------------------------------------------------------
(* The state *)

VARIABLES
    postings,        \* LogDB.postings: BugguHashSet<Tok, Posting>
    docs,            \* LogDB.docs: BugguHashSet<DocId, MetaEntry>
    level_index,     \* LogDB.level_index: BugguHashSet<Tok, Vec<DocId>>
    service_index,   \* LogDB.service_index: BugguHashSet<Tok, Vec<DocId>>
    next_doc_id,     \* LogDB.next_doc_id
    issued,          \* the ids the upserts have returned, in call order
    ingested,        \* what the clock showed at each of these upserts
    last,            \* the last call and what it returned
    memo,            \* the values of the pure functions on the arguments above
    impl,            \* the LogDB the program has built: that of logdb.rs or of tll.rs
    tll,             \* the LogDB of tll.rs: postings, docs, max_postings, stale_secs
    now,             \* what now_secs() returns
    evicted,         \* the <<token, id>> evict_if_needed took from the postings of tll.rs
    post,            \* a Posting on its own
    members,         \* the ids added to it and not removed since
    fresh,           \* how many different ids, or keys, the calls have been made with
    table,           \* a BugguHashSet<u64, String> on its own
    pairs,           \* the finite map it stands for: the keys present and their values
    operands,        \* what a function on its own is applied to
    services,        \* LogConfig.services: BugguHashSet<u64, u8>
    registered       \* the id register_service returned for each name, at its first call

logdb_vars == <<postings, docs, level_index, service_index, next_doc_id, memo>>
tll_vars == <<tll, now, evicted>>
unit_vars == <<post, members, fresh, table, pairs, operands, services, registered>>
vars == <<postings, docs, level_index, service_index, next_doc_id, issued, ingested, last, memo,
          impl, tll, now, evicted, post, members, fresh, table, pairs, operands,
          services, registered>>

\* the string a leaf of a parsed query carries
leaf_string(node) ==
    IF node.type \in {"Term", "Contains"} THEN node.w
    ELSE IF node.type = "Phrase" THEN node.p
    ELSE IF node.type = "FieldTerm" THEN node.v
    ELSE <<>>

leaves(q) ==
    LET node == parse_query(q)
    IN  IF node.type = "And" THEN {node.children[i] : i \in 1..Len(node.children)} ELSE {node}

AllQueries ==
    Queries \cup Items \cup {q_both(a, b) : a, b \in Items}
            \cup {q_or(a, b) : a, b \in Items} \cup {q_and(a, b) : a, b \in Items}
            \cup {q_not(a) : a \in Items} \cup {q_contains(w) : w \in WordItems}

MemoStrings ==
    LevelNames \cup ServiceNames \cup TokenStrings
               \cup UNION {{leaf_string(n) : n \in leaves(q)} : q \in AllQueries}

Descriptors == {descriptor(c, l, v) : c \in Contents, l \in Levels, v \in Services}

\* the bucket index of a u64 key in a table of n buckets:
\* BugguRng::new(key.buggu_hash()).range(0, n - 1)
rank_of(n, key) ==
    The({The({rng_range(rng, n - 1) : rng \in {BugguRng_new(seed)}}) :
         seed \in {buggu_hash_u64_minimal(key)}})

Range(f) == {f[k] : k \in DOMAIN f}

\* the tables, written out, for the given strings and keys
memo_tables(hashes, phrases, tokens, ids) ==
    [ast    |-> [q \in AllQueries |-> parse_query(q)] @@ <<>>,
     hash   |-> hashes,
     phrase |-> phrases,
     tokens |-> tokens,
     rank   |-> [k \in ({40000, 128} \X (Range(hashes) \cup Range(phrases)
                                          \cup UNION {Range(tokens[d]) : d \in DOMAIN tokens}))
                       \cup (({50000} \cup (1..8)) \X ids)
                   |-> rank_of(k[1], k[2])] @@ <<>>]

\* the tables for documents numbered up to n
MemoInit(n) ==
    memo_tables([s \in MemoStrings |-> lightning_hash_str(s)] @@ <<>>,
                [s \in MemoStrings |-> string_to_u64_to_seq_hash(s)] @@ <<>>,
                [d \in Descriptors \cup Contents |-> tokenize_zero_copy(d)] @@ <<>>,
                {U64(i) : i \in 0..n})

lightning_hash_str_memo(s) == memo.hash[s]

string_to_u64_to_seq_hash_memo(s) == memo.phrase[s]

tokenize_zero_copy_memo(s) == memo.tokens[s]

parse_query_memo(q) == memo.ast[q]

----------------------------------------------------------------------------
(* utils/buggu_hash_set.rs: BugguHashSet<K, V> with u64 keys *)

\* the unit value of the sets BugguHashSet<K, ()>
Unit == <<>>

INLINE_BUCKET_SIZE == 4

\* BugguBucket::Empty; storage holds the buckets that are not Empty, by index
EmptyBucket == [kind |-> "Empty", entries |-> <<>>]

BugguHashSet_new(table_size) ==
    [table_size |-> table_size, storage |-> <<>>, count |-> 0]

\* the bucket index of a key in this table
get_rank_for_key(set, key) == memo.rank[<<set.table_size, key>>]

\* storage[idx]
bucket_at(set, idx) ==
    IF idx \in DOMAIN set.storage THEN set.storage[idx] ELSE EmptyBucket

\* the map with storage[idx] = b and count = n
with_bucket(set, idx, b, n) ==
    The({[table_size |-> s.table_size,
             storage    |-> IF bk.kind = "Empty"
                            THEN [j \in (DOMAIN s.storage) \ {i} |-> s.storage[j]] @@ <<>>
                            ELSE (i :> bk) @@ [j \in (DOMAIN s.storage) \ {i} |-> s.storage[j]],
             count      |-> n] : s \in {set}, i \in {idx}, bk \in {b}})

\* the index of the first entry of a bucket holding the key, 0 when there is none
position(entries, key) ==
    IF \E i \in 1..Len(entries) : entries[i][1] = key
    THEN CHOOSE i \in 1..Len(entries) :
            /\ entries[i][1] = key
            /\ \A j \in 1..(i - 1) : entries[j][1] # key
    ELSE 0

\* a bucket after a key it does not hold is put into it (insert, VacantEntry::insert)
bucket_push(b, key, value) ==
    [kind    |-> IF b.kind = "Overflow" THEN "Overflow"
                 ELSE IF Len(b.entries) < INLINE_BUCKET_SIZE THEN "Inline"
                 ELSE "Overflow",
     entries |-> Append(b.entries, <<key, value>>)]

\* the map after insert(key, value)
insert(set, key, value) ==
    The({The({IF i > 0
                    THEN with_bucket(s, idx, [b EXCEPT !.entries[i] = <<k, v>>], s.count)
                    ELSE with_bucket(s, idx, bucket_push(b, k, v), s.count + 1) : idx \in {get_rank_for_key(s, k)}, b \in {bucket_at(s, get_rank_for_key(s, k))}, i \in {position(bucket_at(s, get_rank_for_key(s, k)).entries, k)}}) : s \in {set}, k \in {key}, v \in {value}})

get(set, key) ==
    The({IF i > 0 THEN Some(b.entries[i][2]) ELSE None : b \in {bucket_at(set, get_rank_for_key(set, key))}, i \in {position(bucket_at(set, get_rank_for_key(set, key)).entries, key)}})

\* what insert(key, value) returns: the previous value
insert_result(set, key) == get(set, key)

\* the map after entry(key).or_insert_with(|| default)
entry_or_insert_with(set, key, default) ==
    The({IF position(bucket_at(s, idx).entries, k) > 0 THEN s
            ELSE with_bucket(s, idx, bucket_push(bucket_at(s, idx), k, default), s.count + 1) : s \in {set}, k \in {key}, idx \in {get_rank_for_key(set, key)}})

\* the map after a write through the &mut V of a key it holds (update, get_mut)
update(set, key, value) ==
    The({The({IF i > 0
                    THEN with_bucket(s, idx, [b EXCEPT !.entries[i] = <<k, v>>], s.count)
                    ELSE s : idx \in {get_rank_for_key(s, k)}, b \in {bucket_at(s, get_rank_for_key(s, k))}, i \in {position(bucket_at(s, get_rank_for_key(s, k)).entries, k)}}) : s \in {set}, k \in {key}, v \in {value}})

\* a sequence without its element i, the order of the others kept
without(es, i) == SubSeq(es, 1, i - 1) \o SubSeq(es, i + 1, Len(es))

\* Vec::swap_remove(i): the last element takes the place of element i
swap_remove(es, i) ==
    IF i = Len(es) THEN SubSeq(es, 1, Len(es) - 1)
    ELSE [SubSeq(es, 1, Len(es) - 1) EXCEPT ![i] = es[Len(es)]]

\* a bucket_take that leaves an Overflow bucket as it is, however few entries
\* it is left with
bucket_take_kept(b, i) ==
    IF b.kind = "Inline"
    THEN [kind    |-> IF Len(b.entries) = 1 THEN "Empty" ELSE "Inline",
          entries |-> without(b.entries, i)]
    ELSE [kind |-> "Overflow", entries |-> swap_remove(b.entries, i)]

\* a bucket after the entry i is taken out of it (remove)
bucket_take(b, i) ==
    IF b.kind = "Inline"
    THEN [kind    |-> IF Len(b.entries) = 1 THEN "Empty" ELSE "Inline",
          entries |-> without(b.entries, i)]
    ELSE The({[kind    |-> IF Len(rest) = 0 THEN "Empty"
                           ELSE IF Len(rest) <= INLINE_BUCKET_SIZE THEN "Inline"
                           ELSE "Overflow",
               entries |-> rest] : rest \in {swap_remove(b.entries, i)}})

\* the map after remove(key), for values that own no memory
remove(set, key) ==
    The({The({IF i > 0 THEN with_bucket(s, idx, bucket_take(b, i), s.count - 1) ELSE s :
              b \in {bucket_at(s, idx)}, i \in {position(bucket_at(s, idx).entries, k)}}) :
         s \in {set}, k \in {key}, idx \in {get_rank_for_key(set, key)}})

\* what remove(key) returns: the value taken out
remove_result(set, key) == get(set, key)

\* what reading a value can yield after its memory was freed: the value, when
\* the memory has not been used again, or anything else
Freed(value) == {value, <<"f", "r", "e", "e", "d">>}

\* the maps remove(key) can leave behind when the values own memory: in an
\* Inline bucket the entries after the removed one are moved down by a bitwise
\* copy and the last slot is then assigned a default, which drops the value
\* that was just copied; the entry now last in the bucket is left with a
\* value whose memory is freed
remove_owned(set, key) ==
    The({The({IF i > 0 /\ b.kind = "Inline" /\ i < Len(b.entries)
              THEN {with_bucket(s, idx,
                                [kind |-> "Inline",
                                 entries |-> [without(b.entries, i) EXCEPT ![Len(b.entries) - 1][2] = v]],
                                s.count - 1) : v \in Freed(b.entries[Len(b.entries)][2])}
              ELSE {remove(s, k)} :
              b \in {bucket_at(s, idx)}, i \in {position(bucket_at(s, idx).entries, k)}}) :
         s \in {set}, k \in {key}, idx \in {get_rank_for_key(set, key)}})

\* the entries of the buckets with the given indices, in bucket order
RECURSIVE entries_in_order(_, _)
entries_in_order(storage, idxs) ==
    IF idxs = {} THEN <<>>
    ELSE IF Cardinality(idxs) = 1 THEN storage[The(idxs)].entries
    ELSE The({entries_in_order(storage, {j \in idxs : j < m}) \o entries_in_order(storage, {j \in idxs : j >= m}) :
              m \in {i \in idxs : Cardinality({j \in idxs : j < i}) = Cardinality(idxs) \div 2}})

all_entries(set) == entries_in_order(set.storage, DOMAIN set.storage)

\* a predicate of retain: true of the entries whose key and value are among
\* the given ones
holds(f, key, value) == key \in f.keys /\ value \in f.values

\* the entries the predicate holds of, in their order (the write_idx loop of an
\* Inline bucket, Vec::retain_mut of an Overflow bucket)
RECURSIVE retain_entries(_, _)
retain_entries(es, f) ==
    IF es = <<>> THEN <<>>
    ELSE IF holds(f, es[1][1], es[1][2]) THEN <<es[1]>> \o retain_entries(Tail(es), f)
    ELSE retain_entries(Tail(es), f)

\* a bucket after retain: Empty when nothing is kept, an Overflow bucket made
\* Inline when at most INLINE_BUCKET_SIZE entries are kept
retain_bucket(b, f) ==
    The({[kind    |-> IF Len(kept) = 0 THEN "Empty"
                      ELSE IF b.kind = "Inline" THEN "Inline"
                      ELSE IF Len(kept) <= INLINE_BUCKET_SIZE THEN "Inline"
                      ELSE "Overflow",
          entries |-> kept] : kept \in {retain_entries(b.entries, f)}})

\* a retain that keeps every entry
retain_all(set, f) == set

\* the map after retain(f): count goes down by the entries taken out
retain(set, f) ==
    The({The({[table_size |-> s.table_size,
               storage    |-> kept,
               count      |-> s.count - (Len(all_entries(s)) - Len(entries_in_order(kept, DOMAIN kept)))] :
              kept \in {[i \in {j \in DOMAIN bs : bs[j].kind # "Empty"} |-> bs[i]] @@ <<>>}}) :
         s \in {set}, bs \in {[i \in DOMAIN set.storage |-> retain_bucket(set.storage[i], f)] @@ <<>>}})

\* the keys of the first n entries
entry_keys(es, n) == [i \in 1..n |-> es[i][1]] @@ <<>>

\* keys(): every bucket's keys in bucket order, nothing when count is 0
keys(set) ==
    IF set.count = 0 THEN <<>>
    ELSE The({entry_keys(es, Len(es)) : es \in {all_entries(set)}})

\* an iter_keys that stops one key early
iter_keys_short(set) ==
    The({entry_keys(es, IF n < Len(es) THEN n - 1 ELSE Len(es) - 1) :
         es \in {all_entries(set)}, n \in {set.count}})

\* iter_keys().collect(): the first count keys in bucket order
iter_keys(set) ==
    The({entry_keys(es, IF n < Len(es) THEN n ELSE Len(es)) : es \in {all_entries(set)}, n \in {set.count}})

\* iter_mut().collect(): the first count entries in bucket order
iter_mut(set) ==
    The({SubSeq(es, 1, IF n < Len(es) THEN n ELSE Len(es)) : es \in {all_entries(set)}, n \in {set.count}})

\* the set after insert(k, ()) for the keys lo..hi of ks, in their order
RECURSIVE insert_range(_, _, _, _)
insert_range(set, ks, lo, hi) ==
    IF lo > hi THEN set
    ELSE IF lo = hi THEN insert(set, ks[lo], Unit)
    ELSE The({insert_range(done, ks, (lo + hi) \div 2 + 1, hi) :
              done \in {insert_range(set, ks, lo, (lo + hi) \div 2)}})

\* the set after insert(k, ()) for the first n keys of ks
insert_keys(set, ks, n) == insert_range(set, ks, 1, n)

\* the keys of ks that the set holds (keep) or does not hold (~ keep)
select_keys(ks, set, keep) ==
    The({SelectSeq(seq, LAMBDA k : get(s, k).some = keep) : seq \in {ks}, s \in {set}})

\* an intersect_with that keeps every key of self
intersect_with_self(self, other) == self

\* intersect_with
intersect_with(self, other) ==
    The({The({insert_keys(BugguHashSet_new(smaller.count), found, Len(found)) : found \in {select_keys(iter_keys(smaller), larger, TRUE)}}) : smaller \in {IF self.count < other.count THEN self ELSE other}, larger \in {IF self.count < other.count THEN other ELSE self}})

union_with(self, other) ==
    The({The({insert_keys(BugguHashSet_new(a.count + b.count), ks, Len(ks)) : ks \in {iter_keys(a) \o iter_keys(b)}}) : a \in {self}, b \in {other}})

fast_difference(self, exclude) ==
    The({The({insert_keys(BugguHashSet_new(a.count), ks, Len(ks)) : ks \in {select_keys(iter_keys(a), b, FALSE)}}) : a \in {self}, b \in {exclude}})

\* a push that leaves the index as it is
push_to_entry_skip(index, key, id) == index

\* the map after entry(key).or_insert_with(Vec::new).push(id)
push_to_entry(index, key, id) ==
    The({update(present, key, Append(get(present, key).v, id)) : present \in {entry_or_insert_with(index, key, <<>>)}})

\* push_to_entry of the key under its field, for the first n of the entries
index_push_all(index, es, field_extractor(_), n) ==
    LET RECURSIVE pushed(_)
        pushed(m) ==
            IF m = 0 THEN index
            ELSE push_to_entry(pushed(m - 1), field_extractor(es[m][2]).v, es[m][1])
    IN  pushed(n)

\* create_index_for: the keys grouped by the extracted field, walking the buckets in order
create_index_for(set, field_extractor(_)) ==
    The({index_push_all(BugguHashSet_new(128), es, field_extractor, Len(es)) : es \in {SelectSeq(all_entries(set), LAMBDA e : field_extractor(e[2]).some)}})

----------------------------------------------------------------------------
(* logdb.rs: Posting *)

Posting_new == [small_docs |-> <<>>, large_docs |-> None]

\* an add that does not look whether small_docs holds the id
add_unchecked(posting, doc_id) ==
    [posting EXCEPT !.small_docs = Append(posting.small_docs, doc_id)]

\* an add that adds nothing
add_nothing(posting, doc_id) == posting

\* Posting::add
add(posting, doc_id) ==
    The({IF p.large_docs.some
            THEN [p EXCEPT !.large_docs = Some(insert(p.large_docs.v, id, Unit))]
            ELSE IF Len(p.small_docs) < 128
            THEN IF \E i \in 1..Len(p.small_docs) : p.small_docs[i] = id
                 THEN p
                 ELSE [p EXCEPT !.small_docs = Append(p.small_docs, id)]
            ELSE [small_docs |-> <<>>,
                  large_docs |-> Some(insert(insert_keys(BugguHashSet_new(512), p.small_docs,
                                                         Len(p.small_docs)), id, Unit))] : p \in {posting}, id \in {doc_id}})

\* a get_docs that lists every id a second time
get_docs_twice(p) ==
    IF p.large_docs.some THEN keys(p.large_docs.v) \o keys(p.large_docs.v)
    ELSE p.small_docs \o p.small_docs

\* a get_docs that yields no id
get_docs_none(p) == <<>>

\* Vec::retain(|d| *d != id) on the elements lo..hi
RECURSIVE retain_range(_, _, _, _)
retain_range(ds, lo, hi, id) ==
    IF lo > hi THEN <<>>
    ELSE IF lo = hi THEN (IF ds[lo] = id THEN <<>> ELSE <<ds[lo]>>)
    ELSE retain_range(ds, lo, (lo + hi) \div 2, id) \o retain_range(ds, (lo + hi) \div 2 + 1, hi, id)

\* Vec::retain(|d| *d != id) on the first n elements
retain_other(ds, n, id) == retain_range(ds, 1, n, id)

\* Posting::remove
Posting_remove(posting, doc_id) ==
    The({IF p.large_docs.some
         THEN [p EXCEPT !.large_docs = Some(remove(p.large_docs.v, id))]
         ELSE [p EXCEPT !.small_docs = retain_other(p.small_docs, Len(p.small_docs), id)] :
         p \in {posting}, id \in {doc_id}})

\* Posting::get_docs
get_docs(p) == IF p.large_docs.some THEN keys(p.large_docs.v) ELSE p.small_docs

\* Posting::to_set
to_set(posting) ==
    The({IF p.large_docs.some THEN p.large_docs.v
            ELSE insert_keys(BugguHashSet_new(IF Len(p.small_docs) > 8 THEN Len(p.small_docs) ELSE 8),
                             p.small_docs, Len(p.small_docs)) : p \in {posting}})

\* Posting::empty
empty(p) == IF p.large_docs.some THEN p.large_docs.v.count = 0 ELSE Len(p.small_docs) = 0

(***************************************************************************)
(* tll.rs: LogDB over a Slab of documents, with eviction and stale cleanup  *)
(***************************************************************************)

\* config.max_postings and config.stale_secs of with_config
MaxPostings == 4
StaleSecs == 1
Config == [max_postings |-> MaxPostings, stale_secs |-> StaleSecs]

\* the upserts and the seconds of a run of the LogDB of tll.rs
MaxUpserts == 3
MaxNow == 2

\* content and level of upsert_log on the LogDB of tll.rs
TllContents == {s_aa}
TllLevels == {Some(s_k)}

\* Slab: the entries, each occupied or vacant with the key that was next, and
\* the key the next insert takes
Vacant(next) == [occupied |-> FALSE, next |-> next]
Occupied(val) == [occupied |-> TRUE, val |-> val]

Slab_with_capacity == [entries |-> <<>>, next |-> 0]

Slab_contains(slab, key) ==
    key < Len(slab.entries) /\ slab.entries[key + 1].occupied

Slab_get(slab, key) ==
    IF Slab_contains(slab, key) THEN Some(slab.entries[key + 1].val) ELSE None

\* Slab::insert; the key it returns is slab.next
Slab_insert(slab, val) ==
    IF slab.next = Len(slab.entries)
    THEN [entries |-> Append(slab.entries, Occupied(val)), next |-> slab.next + 1]
    ELSE [entries |-> [slab.entries EXCEPT ![slab.next + 1] = Occupied(val)],
          next |-> slab.entries[slab.next + 1].next]

\* Slab::remove of an occupied key
Slab_remove(slab, key) ==
    [entries |-> [slab.entries EXCEPT ![key + 1] = Vacant(slab.next)], next |-> key]

\* the occupied keys
Slab_keys(slab) == {key \in 0..(Len(slab.entries) - 1) : slab.entries[key + 1].occupied}

\* LogDB::with_config of tll.rs; a Posting is the set of its doc ids
tll_with_config(config) ==
    [postings |-> <<>>,
     docs |-> Slab_with_capacity,
     max_postings |-> config.max_postings,
     stale_secs |-> config.stale_secs]

tll_MetaEntry(tokens, timestamp, level, service) ==
    [tokens |-> tokens, timestamp |-> timestamp, level |-> level, service |-> service,
     ts |-> timestamp]

\* a loop over token_slice that posts nothing
tll_add_tokens_none(posts, tokens, doc_id) == posts

\* upsert_log of tll.rs, the loop over token_slice: the postings after it
tll_add_tokens(posts, tokens, doc_id) ==
    [tok \in DOMAIN posts \cup SeqSet(tokens) |->
        IF tok \in SeqSet(tokens)
        THEN (IF tok \in DOMAIN posts THEN posts[tok] ELSE {}) \cup {doc_id}
        ELSE posts[tok]]

\* upsert_log of tll.rs up to its call of evict_if_needed; it returns db.docs.next
tll_upsert_log(db, content, level, service, timestamp) ==
    The({[db EXCEPT !.docs = Slab_insert(db.docs, tll_MetaEntry(tokens, timestamp, level, service)),
                       !.postings = tll_add_tokens(db.postings, tokens, db.docs.next)] : tokens \in {tokenize_zero_copy_memo(descriptor(content, level, service))}})

\* evict_if_needed: post.docs.iter_keys().next() for every posting that holds
\* an id; the order of the ids of a posting is that of its hash set, so the
\* first can be any of them
first_docs(db) ==
    LET held == {tok \in DOMAIN db.postings : db.postings[tok] # {}}
    IN  {f \in [held -> UNION {db.postings[tok] : tok \in held}] :
            \A tok \in held : f[tok] \in db.postings[tok]}

\* evict_if_needed: the tokens of oldest, those whose first doc is stored
oldest(db, first) == {tok \in DOMAIN first : Slab_contains(db.docs, first[tok])}

\* evict_if_needed: the tokens take(over) can yield after sort_by_key on ts
taken_tokens(db, first, over) ==
    LET ts(tok) == db.docs.entries[first[tok] + 1].val.ts
        old == oldest(db, first)
        n == IF over < Cardinality(old) THEN over ELSE Cardinality(old)
    IN  {E \in SUBSET old :
            /\ Cardinality(E) = n
            /\ \A e \in E : \A c \in old \ E : ts(e) <= ts(c)}

\* evict_if_needed: what it can leave, and the <<token, id>> it took
tll_evict_if_needed(db) ==
    IF Cardinality(DOMAIN db.postings) <= db.max_postings
    THEN {[db |-> db, taken |-> {}]}
    ELSE LET over == Cardinality(DOMAIN db.postings) - db.max_postings + 512
         IN  {[db |-> [db EXCEPT !.postings = [tok \in DOMAIN db.postings \ E |-> db.postings[tok]]],
               taken |-> UNION {{<<tok, id>> : id \in db.postings[tok]} : tok \in E}] :
                 E \in UNION {taken_tokens(db, first, over) : first \in first_docs(db)}}

\* remove_doc
tll_remove_doc(db, id) ==
    IF ~ Slab_contains(db.docs, id) THEN db
    ELSE LET toks == SeqSet(db.docs.entries[id + 1].val.tokens)
             kept == {tok \in DOMAIN db.postings :
                         ~ (tok \in toks /\ db.postings[tok] \ {id} = {})}
         IN  [db EXCEPT !.postings = [tok \in kept |->
                                         IF tok \in toks THEN db.postings[tok] \ {id}
                                         ELSE db.postings[tok]],
                        !.docs = Slab_remove(db.docs, id)]

\* cleanup_stale: stale_ids
stale_ids(db, t) ==
    {id \in Slab_keys(db.docs) : t - db.docs.entries[id + 1].val.ts > db.stale_secs}

\* cleanup_stale: remove_doc for the stale ids below bound, in the order of docs.iter()
RECURSIVE remove_stale(_, _, _)
remove_stale(db, stale, bound) ==
    IF bound = 0 THEN db
    ELSE IF (bound - 1) \in stale
         THEN tll_remove_doc(remove_stale(db, stale, bound - 1), bound - 1)
         ELSE remove_stale(db, stale, bound - 1)

tll_cleanup_stale(db, t) ==
    remove_stale(db, stale_ids(db, t), Len(db.docs.entries))

\* upsert_token and import_tokens of tll.rs: a Posting::default() for a new token
tll_import(posts, toks) ==
    [tok \in DOMAIN posts \cup toks |-> IF tok \in DOMAIN posts THEN posts[tok] ELSE {}]

----------------------------------------------------------------------------
(* logdb.rs: LogDB *)

\* the most different ids a Posting is given: promotion comes with the
\* add that meets 128 ids in small_docs
MaxIds == 130

\* the buckets of the map on its own, its keys and its values
MapBuckets == 1
MaxKey == 5
MapKeys == {U64(i) : i \in 1..MaxKey}
MapValues == {<<"v", "1">>, <<"v", "2">>}

\* LogDB::new, Posting::new, BugguHashSet::new
Built ==
    /\ postings = BugguHashSet_new(40000)
    /\ docs = BugguHashSet_new(50000)
    /\ level_index = BugguHashSet_new(40000)
    /\ service_index = BugguHashSet_new(40000)
    /\ next_doc_id = U64(1)
    /\ issued = <<>>
    /\ ingested = <<>>
    /\ last = [op |-> "new", arg |-> <<>>, ret |-> <<>>]
    /\ tll = tll_with_config(Config)
    /\ now = 0
    /\ evicted = {}
    /\ post = Posting_new
    /\ members = {}
    /\ fresh = 0
    /\ table = BugguHashSet_new(MapBuckets)
    /\ pairs = <<>>
    /\ services = BugguHashSet_new(4096)
    /\ registered = <<>>

\* no function is applied on its own
Idle == Built /\ operands = <<>>

\* the state before the first call, with the tables for the calls on LogDB
New == Idle /\ memo = MemoInit(MaxDocs + 1)

\* the program builds the LogDB of logdb.rs
Init == New /\ impl = "logdb"

\* a MetaEntry that keeps no token
MetaEntry_no_tokens(tokens, level, service, content) ==
    [tokens |-> <<>>, level |-> level, service |-> service, content |-> content]

\* a MetaEntry that keeps no content
MetaEntry_no_content(tokens, level, service, content) ==
    [tokens |-> tokens, level |-> level, service |-> service, content |-> <<>>]

\* MetaEntry
MetaEntry(tokens, level, service, content) ==
    [tokens |-> tokens, level |-> level, service |-> service, content |-> content]

\* postings.entry(tok).or_insert_with(Posting::new).add(doc_id)
add_to_posting(map, tok, doc_id) ==
    The({update(present, tok, add(get(present, tok).v, doc_id)) : present \in {entry_or_insert_with(map, tok, Posting_new)}})

\* add_to_posting for the first n tokens
RECURSIVE add_to_postings(_, _, _, _)
add_to_postings(map, tokens, n, doc_id) ==
    IF n = 0 THEN map
    ELSE add_to_posting(add_to_postings(map, tokens, n - 1, doc_id), tokens[n], doc_id)

\* upsert_log: what it does to the database; it returns next_doc_id
upsert_log(content, level, service) ==
    LET tokens == tokenize_zero_copy_memo(descriptor(content, level, service))
        doc_id == next_doc_id
    IN  /\ next_doc_id' = wrapping_add(next_doc_id, U64(1))
        /\ docs' = insert(docs, doc_id, MetaEntry(tokens, level, service, content))
        /\ postings' = add_to_postings(postings, tokens, Len(tokens), doc_id)
        /\ level_index' = IF level.some
                          THEN push_to_entry(level_index, lightning_hash_str_memo(level.v), doc_id)
                          ELSE level_index
        /\ service_index' = IF service.some
                            THEN push_to_entry(service_index, lightning_hash_str_memo(service.v), doc_id)
                            ELSE service_index
        /\ issued' = Append(issued, doc_id)
        /\ ingested' = Append(ingested, now)

UpsertLog ==
    \E content \in Contents, level \in Levels, service \in Services :
        /\ impl = "logdb"
        /\ Len(issued) < MaxDocs
        /\ upsert_log(content, level, service)
        /\ last' = [op |-> "upsert_log", arg |-> <<content, level, service>>, ret |-> next_doc_id]
        /\ UNCHANGED <<unit_vars, memo, impl, tll_vars>>

\* upsert_simple
UpsertSimple ==
    \E content \in Contents :
        /\ impl = "logdb"
        /\ Len(issued) < MaxDocs
        /\ upsert_log(content, None, None)
        /\ last' = [op |-> "upsert_simple", arg |-> content, ret |-> next_doc_id]
        /\ UNCHANGED <<unit_vars, memo, impl, tll_vars>>

\* upsert_token
UpsertToken ==
    \E s \in TokenStrings :
        /\ impl = "logdb"
        /\ postings' = entry_or_insert_with(postings, lightning_hash_str_memo(s), Posting_new)
        /\ last' = [op |-> "upsert_token", arg |-> s, ret |-> lightning_hash_str_memo(s)]
        /\ UNCHANGED <<unit_vars, docs, level_index, service_index, next_doc_id, issued, ingested, memo, impl, tll_vars>>

\* toks: Vec<Tok> of import_tokens
TokenLists ==
    {<<lightning_hash_str_memo(s_zz)>>,
     <<lightning_hash_str_memo(s_aa), lightning_hash_str_memo(s_zz)>>}

\* postings.entry(t).or_insert_with(Posting::default) for the first n tokens
RECURSIVE import_into(_, _, _)
import_into(map, toks, n) ==
    IF n = 0 THEN map
    ELSE entry_or_insert_with(import_into(map, toks, n - 1), toks[n], Posting_new)

\* import_tokens
ImportTokens ==
    \E toks \in TokenLists :
        /\ impl = "logdb"
        /\ postings' = import_into(postings, toks, Len(toks))
        /\ last' = [op |-> "import_tokens", arg |-> toks, ret |-> <<>>]
        /\ UNCHANGED <<unit_vars, docs, level_index, service_index, next_doc_id, issued, ingested, memo, impl, tll_vars>>

\* cleanup_stale: its body is empty
CleanupStale ==
    /\ impl = "logdb"
    /\ last' = [op |-> "cleanup_stale", arg |-> <<>>, ret |-> <<>>]
    /\ UNCHANGED <<unit_vars, postings, docs, level_index, service_index, next_doc_id, issued, ingested, memo, impl, tll_vars>>

\* an extractor that finds no level
level_token_none(entry) == None

level_token(entry) ==
    IF entry.level.some THEN Some(lightning_hash_str_memo(entry.level.v)) ELSE None

service_token(entry) ==
    IF entry.service.some THEN Some(lightning_hash_str_memo(entry.service.v)) ELSE None

\* rebuild_indexes
RebuildIndexes ==
    /\ impl = "logdb"
    /\ level_index' = create_index_for(docs, level_token)
    /\ service_index' = create_index_for(docs, service_token)
    /\ last' = [op |-> "rebuild_indexes", arg |-> <<>>, ret |-> <<>>]
    /\ UNCHANGED <<unit_vars, postings, docs, next_doc_id, issued, ingested, memo, impl, tll_vars>>

\* filter_by_level
filter_by_level(level) ==
    The({IF found.some THEN found.v ELSE <<>> : found \in {get(level_index, lightning_hash_str_memo(level))}})

\* filter_by_service
filter_by_service(service) ==
    The({IF found.some THEN found.v ELSE <<>> : found \in {get(service_index, lightning_hash_str_memo(service))}})

\* get_term_set
get_term_set(tok) ==
    The({IF p.some THEN to_set(p.v) ELSE BugguHashSet_new(1) : p \in {get(postings, tok)}})

\* create_all_docs_set
create_all_docs_set ==
    The({insert_keys(BugguHashSet_new(docs.count), ids, Len(ids)) : ids \in {iter_keys(docs)}})

\* the set of a Vec<DocId> as exec_to_set builds it
docs_to_set(ids) ==
    The({insert_keys(BugguHashSet_new(IF Len(ds) > 8 THEN Len(ds) ELSE 8), ds, Len(ds)) : ds \in {ids}})

\* result_set and whether the loop has met its break
loop_state(set) == [set |-> set, stopped |-> set.count = 0]

RECURSIVE exec(_), exec_to_set(_), and_step(_, _), and_loop(_, _), or_loop(_, _)

\* exec, the And arm: one turn of the loop
and_step(prev, child) ==
    The({IF st.stopped THEN st
                      ELSE The({loop_state(arg) : arg \in {intersect_with(st.set, exec_to_set(child))}}) : st \in {prev}})

\* exec, the And arm: result_set after the children 2..n, stopped once it is empty
and_loop(children, n) ==
    IF n = 1 THEN [set |-> exec_to_set(children[1]), stopped |-> FALSE]
    ELSE and_step(and_loop(children, n - 1), children[n])

\* exec, the Or arm: result_set after the children 2..n
or_loop(children, n) ==
    IF n = 1 THEN exec_to_set(children[1])
    ELSE union_with(or_loop(children, n - 1), exec_to_set(children[n]))

exec(node) ==
    IF node.type \in {"Term", "Contains"}
    THEN The({IF p.some THEN get_docs(p.v) ELSE <<>> : p \in {get(postings, lightning_hash_str_memo(node.w))}})
    ELSE IF node.type = "Phrase"
    THEN The({IF p.some THEN get_docs(p.v) ELSE <<>> : p \in {get(postings, string_to_u64_to_seq_hash_memo(node.p))}})
    ELSE IF node.type = "FieldTerm"
    THEN IF node.f = s_level THEN filter_by_level(node.v)
         ELSE IF node.f = s_service THEN filter_by_service(node.v)
         ELSE keys(intersect_with(get_term_set(lightning_hash_str_memo(node.f)),
                                  get_term_set(lightning_hash_str_memo(node.v))))
    ELSE IF node.type = "And"
    THEN IF Len(node.children) = 0 THEN <<>>
         ELSE keys(and_loop(node.children, Len(node.children)).set)
    ELSE IF node.type = "Or"
    THEN IF Len(node.children) = 0 THEN <<>>
         ELSE keys(or_loop(node.children, Len(node.children)))
    ELSE IF node.type = "Not"
    THEN keys(fast_difference(create_all_docs_set, exec_to_set(node.child)))
    ELSE <<>>

exec_to_set(node) == docs_to_set(exec(node))

\* query
query(q) == The({exec(arg) : arg \in {parse_query_memo(q)}})

Query ==
    \E q \in Queries :
        /\ impl = "logdb"
        /\ last' = [op |-> "query", arg |-> q, ret |-> query(q)]
        /\ UNCHANGED <<unit_vars, postings, docs, level_index, service_index, next_doc_id, issued, ingested, memo, impl, tll_vars>>

\* the ids get_content is asked for: 0 is never assigned
DocIds == {U64(i) : i \in 0..MaxDocs}

\* get_content
get_content(doc_id) ==
    The({IF e.some THEN Some(e.v.content) ELSE None : e \in {get(docs, doc_id)}})

GetContent ==
    \E doc_id \in DocIds :
        /\ impl = "logdb"
        /\ last' = [op |-> "get_content", arg |-> doc_id, ret |-> get_content(doc_id)]
        /\ UNCHANGED <<unit_vars, postings, docs, level_index, service_index, next_doc_id, issued, ingested, memo, impl, tll_vars>>

\* filter_map(|id| self.get_content(&id)) over the first n ids
RECURSIVE contents_of(_, _)
contents_of(ids, n) ==
    IF n = 0 THEN <<>>
    ELSE The({(IF c.some THEN front \o <<c.v>> ELSE front) :
              front \in {contents_of(ids, n - 1)}, c \in {get_content(ids[n])}})

\* query_content
query_content(q) == The({contents_of(ids, Len(ids)) : ids \in {query(q)}})

\* q: &str of query_content: a word, a field item, two words
ContentQueries == {s_aa, q_level(s_k), q_both(s_aa, s_b)}

QueryContent ==
    \E q \in ContentQueries :
        /\ impl = "logdb"
        /\ last' = [op |-> "query_content", arg |-> q, ret |-> query_content(q)]
        /\ UNCHANGED <<unit_vars, postings, docs, level_index, service_index, next_doc_id, issued, ingested, memo, impl, tll_vars>>

Next ==
    \/ UpsertLog
    \/ UpsertSimple
    \/ UpsertToken
    \/ ImportTokens
    \/ CleanupStale
    \/ RebuildIndexes
    \/ Query
    \/ QueryContent
    \/ GetContent

Spec == Init /\ [][Next]_vars

(***************************************************************************)
(* The program over the LogDB of tll.rs                                    *)
(***************************************************************************)

\* upsert_log of tll.rs
TllUpsertLog ==
    \E content \in TllContents, level \in TllLevels, service \in Services :
        /\ impl = "tll"
        /\ Len(issued) < MaxUpserts
        /\ \E out \in tll_evict_if_needed(tll_upsert_log(tll, content, level, service, now)) :
               /\ tll' = out.db
               /\ evicted' = evicted \cup out.taken
        /\ issued' = Append(issued, U64(tll.docs.next))
        /\ ingested' = Append(ingested, now)
        /\ last' = [op |-> "upsert_log", arg |-> <<content, level, service>>,
                    ret |-> U64(tll.docs.next)]
        /\ UNCHANGED <<unit_vars, logdb_vars, impl, now>>

\* upsert_simple of tll.rs
TllUpsertSimple ==
    \E content \in Contents :
        /\ impl = "tll"
        /\ Len(issued) < MaxUpserts
        /\ \E out \in tll_evict_if_needed(tll_upsert_log(tll, content, None, None, now)) :
               /\ tll' = out.db
               /\ evicted' = evicted \cup out.taken
        /\ issued' = Append(issued, U64(tll.docs.next))
        /\ ingested' = Append(ingested, now)
        /\ last' = [op |-> "upsert_simple", arg |-> content, ret |-> U64(tll.docs.next)]
        /\ UNCHANGED <<unit_vars, logdb_vars, impl, now>>

\* upsert_token of tll.rs
TllUpsertToken ==
    \E s \in TokenStrings :
        /\ impl = "tll"
        /\ tll' = [tll EXCEPT !.postings = tll_import(@, {lightning_hash_str_memo(s)})]
        /\ last' = [op |-> "upsert_token", arg |-> s, ret |-> lightning_hash_str_memo(s)]
        /\ UNCHANGED <<unit_vars, logdb_vars, impl, now, evicted, issued, ingested>>

\* import_tokens of tll.rs
TllImportTokens ==
    \E toks \in TokenLists :
        /\ impl = "tll"
        /\ tll' = [tll EXCEPT !.postings = tll_import(@, SeqSet(toks))]
        /\ last' = [op |-> "import_tokens", arg |-> toks, ret |-> <<>>]
        /\ UNCHANGED <<unit_vars, logdb_vars, impl, now, evicted, issued, ingested>>

\* cleanup_stale of tll.rs; a removed document's id is no longer among the evicted
TllCleanupStale ==
    /\ impl = "tll"
    /\ tll' = tll_cleanup_stale(tll, now)
    /\ evicted' = {e \in evicted : e[2] \notin stale_ids(tll, now)}
    /\ last' = [op |-> "cleanup_stale", arg |-> <<>>, ret |-> <<>>]
    /\ UNCHANGED <<unit_vars, logdb_vars, impl, now, issued, ingested>>

\* a second passes on the clock of now_secs
Tick ==
    /\ impl = "tll"
    /\ now < MaxNow
    /\ now' = now + 1
    /\ last' = [op |-> "tick", arg |-> <<>>, ret |-> <<>>]
    /\ UNCHANGED <<unit_vars, logdb_vars, impl, tll, evicted, issued, ingested>>

NextTll ==
    \/ TllUpsertLog
    \/ TllUpsertSimple
    \/ TllUpsertToken
    \/ TllImportTokens
    \/ TllCleanupStale
    \/ Tick

\* the program builds the LogDB of tll.rs
InitTll == New /\ impl = "tll"

SpecTll == InitTll /\ [][NextTll]_vars

\* the program builds either LogDB
InitAll == New /\ impl \in {"logdb", "tll"}

NextAll == Next \/ NextTll

SpecAll == InitAll /\ [][NextAll]_vars

(***************************************************************************)
(* The program over the LogDB of logdb.rs, with the time that passes       *)
(* between its calls                                                       *)
(***************************************************************************)

\* the calling thread sleeps for a second
Sleep ==
    /\ impl = "logdb"
    /\ now < MaxNow
    /\ now' = now + 1
    /\ last' = [op |-> "sleep", arg |-> <<>>, ret |-> <<>>]
    /\ UNCHANGED <<unit_vars, logdb_vars, issued, ingested, impl, tll, evicted>>

NextClock ==
    \/ UpsertSimple
    \/ CleanupStale
    \/ GetContent
    \/ Query
    \/ Sleep

SpecClock == Init /\ [][NextClock]_vars

(***************************************************************************)
(* A Posting on its own: add and remove                                    *)
(***************************************************************************)

\* the ids add is called with: an id not given before, the first id, the
\* id given last
AddIds == {U64(i) : i \in ({fresh + 1} \cap (1..MaxIds)) \cup ({1, fresh} \cap (1..fresh))}

\* the ids remove is called with: the first id, and the id given last once
\* small_docs can be full
RemoveIds == {U64(i) : i \in ({1} \cap (1..fresh)) \cup ({fresh} \cap (128..MaxIds))}

PostingAdd ==
    \E id \in AddIds :
        /\ impl = "posting"
        /\ post' = add(post, id)
        /\ members' = members \cup {id}
        /\ fresh' = IF id = U64(fresh + 1) THEN fresh + 1 ELSE fresh
        /\ last' = [op |-> "add", arg |-> id, ret |-> <<>>]
        /\ UNCHANGED <<logdb_vars, issued, ingested, impl, tll_vars, operands, services, registered, table, pairs>>

PostingRemove ==
    \E id \in RemoveIds :
        /\ impl = "posting"
        /\ post' = Posting_remove(post, id)
        /\ members' = members \ {id}
        /\ last' = [op |-> "remove", arg |-> id, ret |-> <<>>]
        /\ UNCHANGED <<logdb_vars, issued, ingested, impl, tll_vars, operands, services, registered, fresh, table, pairs>>

NextPosting ==
    \/ PostingAdd
    \/ PostingRemove

\* the tables for the ids of a Posting: the promoted set has 512 buckets, the
\* set of to_set has 8 for up to 8 ids
PostingMemo(n) ==
    [rank |-> [k \in ({512} \X {U64(i) : i \in 1..n}) \cup ({8} \X {U64(i) : i \in 1..9})
                  |-> rank_of(k[1], k[2])] @@ <<>>]

InitPosting == Idle /\ impl = "posting" /\ memo = PostingMemo(MaxIds)

SpecPosting == InitPosting /\ [][NextPosting]_vars

(***************************************************************************)
(* A BugguHashSet<u64, String> on its own                                  *)
(***************************************************************************)

\* the finite map with the key taken out
drop_key(f, k) == [j \in (DOMAIN f) \ {k} |-> f[j]] @@ <<>>

\* the finite map with the key set to the value
put_key(f, k, v) == (k :> v) @@ drop_key(f, k)

\* the keys the calls are made with: a key not given before, always with the
\* first value, and the keys 1 and 2, with either value
NewKeys == {U64(i) : i \in {fresh + 1} \cap (1..MaxKey)}
OldKeys == {U64(1), U64(2)}
FirstValue == <<"v", "1">>
ValuesFor(k) == IF k \in NewKeys THEN {FirstValue} ELSE MapValues

MapInsert ==
    \E k \in NewKeys \cup OldKeys :
        \E v \in ValuesFor(k) :
            /\ impl = "map"
            /\ table' = insert(table, k, v)
            /\ pairs' = put_key(pairs, k, v)
            /\ fresh' = IF k \in NewKeys THEN fresh + 1 ELSE fresh
            /\ last' = [op |-> "insert", arg |-> <<k, v>>, ret |-> insert_result(table, k)]
            /\ UNCHANGED <<logdb_vars, issued, ingested, impl, tll_vars, operands, services, registered, post, members>>

MapRemove ==
    \E k \in OldKeys :
        /\ impl = "map"
        /\ table' \in remove_owned(table, k)
        /\ pairs' = drop_key(pairs, k)
        /\ last' = [op |-> "remove", arg |-> k, ret |-> remove_result(table, k)]
        /\ UNCHANGED <<logdb_vars, issued, ingested, impl, tll_vars, operands, services, registered, post, members, fresh>>

MapUpdate ==
    \E k \in OldKeys, v \in MapValues :
        /\ impl = "map"
        /\ table' = update(table, k, v)
        /\ pairs' = IF k \in DOMAIN pairs THEN put_key(pairs, k, v) ELSE pairs
        /\ last' = [op |-> "update", arg |-> <<k, v>>, ret |-> get(table, k)]
        /\ UNCHANGED <<logdb_vars, issued, ingested, impl, tll_vars, operands, services, registered, post, members, fresh>>

MapEntryOrInsertWith ==
    \E k \in NewKeys \cup OldKeys :
        /\ impl = "map"
        /\ table' = entry_or_insert_with(table, k, FirstValue)
        /\ pairs' = IF k \in DOMAIN pairs THEN pairs ELSE put_key(pairs, k, FirstValue)
        /\ fresh' = IF k \in NewKeys THEN fresh + 1 ELSE fresh
        /\ last' = [op |-> "entry", arg |-> k, ret |-> <<>>]
        /\ UNCHANGED <<logdb_vars, issued, ingested, impl, tll_vars, operands, services, registered, post, members>>

\* the predicates retain is called with: on the key, on the value, on both,
\* and the one that holds of nothing
RetainPredicates ==
    {[keys |-> {U64(1), U64(3), U64(5)}, values |-> MapValues],
     [keys |-> MapKeys, values |-> {FirstValue}],
     [keys |-> {U64(2), U64(3), U64(4), U64(5)}, values |-> {FirstValue}],
     [keys |-> {}, values |-> MapValues]}

\* the finite map of the pairs the predicate holds of
retain_pairs(m, f) == [k \in {j \in DOMAIN m : holds(f, j, m[j])} |-> m[k]] @@ <<>>

MapRetain ==
    \E f \in RetainPredicates :
        /\ impl = "map"
        /\ table' = retain(table, f)
        /\ pairs' = retain_pairs(pairs, f)
        /\ last' = [op |-> "retain", arg |-> f, ret |-> <<>>, len |-> table.count]
        /\ UNCHANGED <<logdb_vars, issued, ingested, impl, tll_vars, operands, services, registered, post, members, fresh>>

MapGet ==
    \E k \in OldKeys \cup {U64(MaxKey)} :
        /\ impl = "map"
        /\ last' = [op |-> "get", arg |-> k, ret |-> get(table, k)]
        /\ UNCHANGED <<logdb_vars, issued, ingested, impl, tll_vars, operands, unit_vars>>

NextMap ==
    \/ MapInsert
    \/ MapRemove
    \/ MapRetain
    \/ MapUpdate
    \/ MapEntryOrInsertWith
    \/ MapGet

\* the table of bucket indices for the keys of the map
MapMemo(ks) ==
    [rank |-> [k \in {MapBuckets} \X ks |-> rank_of(k[1], k[2])] @@ <<>>]

InitMap == Idle /\ impl = "map" /\ memo = MapMemo(MapKeys)

SpecMap == InitMap /\ [][NextMap]_vars


(***************************************************************************)
(* Two BugguHashSet<u64, ()> and the set operations on them                *)
(***************************************************************************)

MaxSetKey == 5
MaxSetBuckets == 2
SetKeys == 1..MaxSetKey

\* the keys of a set of numbers, smallest first
RECURSIVE ascending(_)
ascending(S) ==
    IF S = {} THEN <<>>
    ELSE The({<<U64(m)>> \o ascending(S \ {m}) : m \in {i \in S : \A j \in S : i <= j}})

\* the maps the operations are applied to: one made by new(n) and an insert
\* for each key, and the map new(0), which is also what intersect_with,
\* union_with and fast_difference return when they are given empty maps
OperandSets ==
    {BugguHashSet_new(0)}
    \cup {insert_keys(BugguHashSet_new(n), ks, Len(ks)) :
            n \in 1..MaxSetBuckets, ks \in {ascending(S) : S \in SUBSET SetKeys}}

\* a call that does not return
Panic == [panic |-> TRUE]

\* a call that came back with the value v
Returned(v) == [panic |-> FALSE, v |-> v]

\* the elements of a sequence at the given positions, in their order
RECURSIVE pick(_, _)
pick(ks, S) ==
    IF ks = <<>> THEN <<>>
    ELSE The({(IF Len(ks) \in S THEN front \o <<ks[Len(ks)]>> ELSE front) :
              front \in {pick(SubSeq(ks, 1, Len(ks) - 1), S)}})

\* what fast_difference can do: when exclude has no bucket, get_rank_for_key
\* of exclude.get(&key) computes storage.len() - 1 = 0 - 1, which panics in a
\* build with overflow checks and otherwise leads get to read storage[0] of
\* an empty storage, with any answer, or none, for each key
fast_difference_outcomes(self, exclude) ==
    IF exclude.table_size = 0 /\ self.count > 0
    THEN {Panic} \cup {insert_keys(BugguHashSet_new(self.count), ks, Len(ks)) :
                         ks \in {pick(iter_keys(self), S) : S \in SUBSET (1..self.count)}}
    ELSE {fast_difference(self, exclude)}

SetIntersect ==
    /\ impl = "sets"
    /\ last' = [op |-> "intersect_with", arg |-> <<>>, ret |-> intersect_with(operands.a, operands.b)]
    /\ UNCHANGED <<logdb_vars, issued, ingested, impl, tll_vars, unit_vars>>

SetUnion ==
    /\ impl = "sets"
    /\ last' = [op |-> "union_with", arg |-> <<>>, ret |-> union_with(operands.a, operands.b)]
    /\ UNCHANGED <<logdb_vars, issued, ingested, impl, tll_vars, unit_vars>>

SetDifference ==
    \E r \in fast_difference_outcomes(operands.a, operands.b) :
        /\ impl = "sets"
        /\ last' = [op |-> "fast_difference", arg |-> <<>>, ret |-> r]
        /\ UNCHANGED <<logdb_vars, issued, ingested, impl, tll_vars, unit_vars>>

\* what insert(key, ()) can do: in a map of no bucket get_rank_for_key computes
\* storage.len() - 1 = 0 - 1, which panics in a build with overflow checks;
\* otherwise range(0, u64::MAX) gives 0 and insert writes through
\* storage.get_unchecked_mut(0) of an empty storage, after which the map may
\* be as it was or count one entry more, holding none
insert_outcomes(set, key) ==
    IF set.table_size = 0
    THEN {Panic, Returned(set), Returned([set EXCEPT !.count = @ + 1])}
    ELSE {Returned(insert(set, key, Unit))}

\* insert(key, ()) on a copy of the first operand
SetInsert ==
    \E k \in SetKeys :
        \E r \in insert_outcomes(operands.a, U64(k)) :
            /\ impl = "sets"
            /\ last' = [op |-> "insert", arg |-> U64(k), ret |-> r]
            /\ UNCHANGED <<logdb_vars, issued, ingested, impl, tll_vars, unit_vars>>

NextSets ==
    \/ SetIntersect
    \/ SetUnion
    \/ SetDifference
    \/ SetInsert

\* the table of bucket indices: the operands have up to MaxSetBuckets buckets,
\* a result up to one for each key of both operands
SetsMemo(ks) ==
    [rank |-> [k \in (1..(2 * Cardinality(ks))) \X {U64(i) : i \in ks} |-> rank_of(k[1], k[2])] @@ <<>>]

InitSets ==
    /\ Built
    /\ impl = "sets"
    /\ memo = SetsMemo(SetKeys)
    /\ operands \in [a : OperandSets, b : OperandSets]

SpecSets == InitSets /\ [][NextSets]_vars

(***************************************************************************)
(* codec.rs: frames of u64 written as variable-length integers             *)
(***************************************************************************)

TAG_FULL == 0
TAG_DIFF == 1

Full(doc_id, tokens) == [frame |-> "Full", doc_id |-> doc_id, tokens |-> tokens]
Diff(doc_id, removed, added) ==
    [frame |-> "Diff", doc_id |-> doc_id, remove |-> removed, add |-> added]

\* Ok(v) of read_uvar, with what is left of the bytes it was given
Ok(v, rest) == [ok |-> TRUE, v |-> v, rest |-> rest]
\* Ok(frame) of decode
Frame(frame) == [ok |-> TRUE, v |-> frame]
UnexpectedEof == [ok |-> FALSE, kind |-> "UnexpectedEof", msg |-> ""]
InvalidData(msg) == [ok |-> FALSE, kind |-> "InvalidData", msg |-> msg]

\* (n & 0x7F) as u8
low7(n) == n[1] % 128

\* n >> 7
shr7(n) == [i \in 1..8 |-> (n[i] \div 128) + (IF i < 8 THEN (n[i + 1] % 128) * 2 ELSE 0)]

\* the bytes write_uvar(n, out) pushes to out
RECURSIVE write_uvar(_)
write_uvar(n) ==
    The({IF rest = U64(0) THEN <<low>> ELSE <<low + 128>> \o write_uvar(rest) :
         low \in {low7(n)}, rest \in {shr7(n) @@ <<>>}})

\* bit p of acc | (v << shift), for a v below 128: bits moved past bit 63 are lost
or_bit(acc, v, shift, p) ==
    IF \/ (acc[p \div 8 + 1] \div (2 ^ (p % 8))) % 2 = 1
       \/ (p >= shift /\ p - shift <= 6 /\ (v \div (2 ^ (p - shift))) % 2 = 1)
    THEN 1 ELSE 0

\* the accumulator left as it was
or_shl_dropped(acc, v, shift) == acc

\* acc | ((b & 0x7F) as u64) << shift
or_shl(acc, v, shift) ==
    [i \in 1..8 |->
        or_bit(acc, v, shift, 8 * (i - 1))
        + 2 * or_bit(acc, v, shift, 8 * (i - 1) + 1)
        + 4 * or_bit(acc, v, shift, 8 * (i - 1) + 2)
        + 8 * or_bit(acc, v, shift, 8 * (i - 1) + 3)
        + 16 * or_bit(acc, v, shift, 8 * (i - 1) + 4)
        + 32 * or_bit(acc, v, shift, 8 * (i - 1) + 5)
        + 64 * or_bit(acc, v, shift, 8 * (i - 1) + 6)
        + 128 * or_bit(acc, v, shift, 8 * (i - 1) + 7)] @@ <<>>

\* the rounds of read_uvar from the given one on
RECURSIVE read_uvar_from(_, _, _, _)
read_uvar_from(src, acc, shift, round) ==
    IF round = 10 THEN InvalidData("varint too long")
    ELSE IF src = <<>> THEN UnexpectedEof
    ELSE The({IF b < 128 THEN Ok(next, rest)
              ELSE read_uvar_from(rest, next, shift + 7, round + 1) :
              b \in {src[1]}, rest \in {Tail(src)}, next \in {or_shl(acc, src[1] % 128, shift)}})

\* read_uvar(&mut src): the value and what is left of src, or the error
read_uvar(src) == read_uvar_from(src, U64(0), 0, 0)

\* the loop left before its first round
read_tokens_short(src, len, k, read) == Ok(read, src)

\* the loop for _ in 0..len { v.push(read_uvar(&mut bytes)?) } from round k on
RECURSIVE read_tokens(_, _, _, _)
read_tokens(src, len, k, read) ==
    IF U64(k) = len THEN Ok(read, src)
    ELSE The({IF t.ok THEN The({read_tokens(rest, len, k + 1, all) :
                                 rest \in {t.rest}, all \in {Append(read, t.v)}})
              ELSE t : t \in {read_uvar(src)}})

\* a length and that many tokens; Vec::with_capacity(len) panics when len
\* tokens of 8 bytes are more than isize::MAX bytes
read_list(src) ==
    The({IF ~ len.ok THEN len
         ELSE IF len.v[8] >= 16 THEN Panic
         ELSE read_tokens(len.rest, len.v, 0, <<>>) : len \in {read_uvar(src)}})

\* the bytes of write_uvar for each token in turn
RECURSIVE write_tokens(_)
write_tokens(tokens) ==
    IF tokens = <<>> THEN <<>>
    ELSE The({write_uvar(tokens[1]) \o write_tokens(rest) : rest \in {Tail(tokens)}})

encode_full(doc, tokens) ==
    <<TAG_FULL>> \o write_uvar(doc) \o write_uvar(U64(Len(tokens))) \o write_tokens(tokens)

\* the two lists written in the other order
encode_diff_swapped(doc, removed, added) ==
    <<TAG_DIFF>> \o write_uvar(doc)
        \o write_uvar(U64(Len(added))) \o write_tokens(added)
        \o write_uvar(U64(Len(removed))) \o write_tokens(removed)

encode_diff(doc, removed, added) ==
    <<TAG_DIFF>> \o write_uvar(doc)
        \o write_uvar(U64(Len(removed))) \o write_tokens(removed)
        \o write_uvar(U64(Len(added))) \o write_tokens(added)

\* a decode_full that takes bytes after the last token for an error
decode_full_exact(doc_id, src) ==
    The({IF "ok" \in DOMAIN tokens /\ tokens.ok
         THEN IF tokens.rest = <<>> THEN Frame(Full(doc_id, tokens.v))
              ELSE InvalidData("trailing bytes")
         ELSE tokens : tokens \in {read_list(src)}})

\* the rest of decode for the tag TAG_FULL
decode_full(doc_id, src) ==
    The({IF "ok" \in DOMAIN tokens /\ tokens.ok THEN Frame(Full(doc_id, tokens.v))
         ELSE tokens : tokens \in {read_list(src)}})

\* the rest of decode for the tag TAG_DIFF
decode_diff(doc_id, src) ==
    The({IF ~ ("ok" \in DOMAIN removed /\ removed.ok) THEN removed
         ELSE The({IF "ok" \in DOMAIN added /\ added.ok
                   THEN Frame(Diff(doc_id, removed.v, added.v))
                   ELSE added : added \in {read_list(removed.rest)}}) :
         removed \in {read_list(src)}})

\* decode: the doc id is read before the tag is looked at
decode(bytes) ==
    IF bytes = <<>> THEN UnexpectedEof
    ELSE The({IF ~ doc_id.ok THEN doc_id
              ELSE IF bytes[1] = TAG_FULL THEN decode_full(doc_id.v, doc_id.rest)
              ELSE IF bytes[1] = TAG_DIFF THEN decode_diff(doc_id.v, doc_id.rest)
              ELSE InvalidData("bad tag") : doc_id \in {read_uvar(Tail(bytes))}})

\* the inputs of the codec: doc ids, and token lists of up to MaxTokens tokens
MaxTokens == 2
CodecDocs == {U64(7), U64(300)}
TokenValues == {U64(9), U64_MAX}
FrameTokens == UNION {[1..n -> TokenValues] : n \in 0..MaxTokens}

\* 2^r - 1 as a u64
Ones(r) ==
    [i \in 1..8 |-> IF i - 1 < r \div 8 THEN 255
                    ELSE IF i - 1 = r \div 8 THEN 2 ^ (r % 8) - 1
                    ELSE 0]

\* the integers write_uvar is given on its own: the least and the greatest
\* of each number of bytes
VarintValues ==
    {Pow2Word(7 * k) : k \in 0..9} \cup {Ones(7 * k) : k \in 0..9} \cup {U64(300), U64_MAX}

\* what follows an integer in the bytes read_uvar is given
Trailers == {<<>>, <<0>>, <<255, 1>>}

\* the tags of no frame
BadTags == {2, 255}

EncodeFull ==
    /\ impl = "codec"
    /\ last' = [op |-> "encode_full", arg |-> <<operands.doc, operands.add>>,
                ret |-> encode_full(operands.doc, operands.add)]
    /\ UNCHANGED <<logdb_vars, issued, ingested, impl, tll_vars, unit_vars>>

EncodeDiff ==
    /\ impl = "codec"
    /\ last' = [op |-> "encode_diff", arg |-> <<operands.doc, operands.remove, operands.add>>,
                ret |-> encode_diff(operands.doc, operands.remove, operands.add)]
    /\ UNCHANGED <<logdb_vars, issued, ingested, impl, tll_vars, unit_vars>>

\* the frame arrives cut short
Truncate ==
    /\ impl = "codec"
    /\ last.op \in {"encode_full", "encode_diff"}
    /\ \E n \in 0..(Len(last.ret) - 1) :
        /\ last' = [op |-> "truncate", arg |-> last.ret, ret |-> SubSeq(last.ret, 1, n)]
        /\ UNCHANGED <<logdb_vars, issued, ingested, impl, tll_vars, unit_vars>>

\* the bytes arrive with the tag of no frame
Retag ==
    \E tag \in BadTags :
        /\ impl = "codec"
        /\ last.op \in {"encode_full", "encode_diff", "truncate"}
        /\ Len(last.ret) >= 1
        /\ last' = [op |-> "retag", arg |-> last.ret, ret |-> [last.ret EXCEPT ![1] = tag]]
        /\ UNCHANGED <<logdb_vars, issued, ingested, impl, tll_vars, unit_vars>>

\* the frame arrives with other bytes after it
Extend ==
    \E tail \in Trailers \ {<<>>} :
        /\ impl = "codec"
        /\ last.op \in {"encode_full", "encode_diff"}
        /\ last' = [op |-> "extend", arg |-> last.ret, ret |-> last.ret \o tail]
        /\ UNCHANGED <<logdb_vars, issued, ingested, impl, tll_vars, unit_vars>>

Decode ==
    /\ impl = "codec"
    /\ last.op \in {"encode_full", "encode_diff", "truncate", "retag", "extend"}
    /\ last' = [op |-> "decode", arg |-> last.ret, ret |-> decode(last.ret), from |-> last.op]
    /\ UNCHANGED <<logdb_vars, issued, ingested, impl, tll_vars, unit_vars>>

WriteUvar ==
    \E n \in VarintValues :
        /\ impl = "codec"
        /\ last.op = "new"
        /\ last' = [op |-> "write_uvar", arg |-> n, ret |-> write_uvar(n)]
        /\ UNCHANGED <<logdb_vars, issued, ingested, impl, tll_vars, unit_vars>>

ReadUvar ==
    \E tail \in Trailers :
        /\ impl = "codec"
        /\ last.op = "write_uvar"
        /\ last' = [op |-> "read_uvar", arg |-> last.ret \o tail, ret |-> read_uvar(last.ret \o tail),
                    n |-> last.arg, tail |-> tail]
        /\ UNCHANGED <<logdb_vars, issued, ingested, impl, tll_vars, unit_vars>>

NextCodec ==
    \/ EncodeFull
    \/ EncodeDiff
    \/ Truncate
    \/ Retag
    \/ Extend
    \/ Decode
    \/ WriteUvar
    \/ ReadUvar

InitCodec ==
    /\ Built
    /\ impl = "codec"
    /\ memo = <<>>
    /\ operands \in [doc : CodecDocs, remove : FrameTokens, add : FrameTokens]

SpecCodec == InitCodec /\ [][NextCodec]_vars

(***************************************************************************)
(* Properties of the index of logdb.rs                                     *)
(***************************************************************************)

\* the ids of the documents in the store
StoredIds == SeqSet(iter_keys(docs))

\* the stored MetaEntry of an id
stored(id) == get(docs, id).v

\* the ids a posting of the inverted index holds for a token
PostingIds(tok) ==
    The({IF p.some THEN SeqSet(get_docs(p.v)) ELSE {} : p \in {get(postings, tok)}})

\* the stored documents whose token sequence contains the token
DocsWithToken(tok) == {id \in StoredIds : tok \in SeqSet(stored(id).tokens)}

\* C1: a query made of one ASCII-alpha word returns exactly the ids of the
\* stored documents whose token sequence contains hash_token of the word,
\* each id once.
C1_WordQueryReturnsDocsWithToken ==
    (last.op = "query" /\ last.arg \in WordItems) =>
        /\ SeqSet(last.ret) = DocsWithToken(lightning_hash_str(last.arg))
        /\ NoDuplicates(last.ret)

\* a query for the word b has returned one of two stored documents
C1_Witness ==
    /\ last.op = "query"
    /\ last.arg = s_b
    /\ Len(last.ret) = 1
    /\ Cardinality(StoredIds) = 2


\* the stored documents whose level and service are the given names
DocsWithLevelService(L, S) ==
    {id \in StoredIds : stored(id).level = Some(L) /\ stored(id).service = Some(S)}

\* the stored documents whose level has the hash_token of L
DocsWithLevelHash(L) ==
    {id \in StoredIds :
        /\ stored(id).level.some
        /\ lightning_hash_str(stored(id).level.v) = lightning_hash_str(L)}

\* the stored documents whose service has the hash_token of S
DocsWithServiceHash(S) ==
    {id \in StoredIds :
        /\ stored(id).service.some
        /\ lightning_hash_str(stored(id).service.v) = lightning_hash_str(S)}

\* the ids an auxiliary index holds under hash_token of a name
IndexIds(index, name) ==
    The({IF found.some THEN SeqSet(found.v) ELSE {} : found \in {get(index, lightning_hash_str(name))}})

\* the result of a query of two items is the intersection of the items' results
AndIsIntersection ==
    \A a, b \in Items :
        last.arg = q_both(a, b) =>
            SeqSet(last.ret) = SeqSet(query(a)) \cap SeqSet(query(b))

C4_IndexHoldsDocsOfName ==
    /\ \A L \in LevelNames :
          IndexIds(level_index, L) = {id \in StoredIds : stored(id).level = Some(L)}
    /\ \A S \in ServiceNames :
          IndexIds(service_index, S) = {id \in StoredIds : stored(id).service = Some(S)}
    /\ \A L \in LevelNames :
          (last.op = "query" /\ last.arg = q_level(L)) =>
              SeqSet(last.ret) = {id \in StoredIds : stored(id).level = Some(L)}

\* C4: level_index[hash_token(L)], and the result of query("level:L"), is
\* exactly the set of ids whose stored level has the hash_token of L; the
\* same for service_index and query("service:S").
C4_IndexHoldsDocsOfHash ==
    /\ \A L \in LevelNames : IndexIds(level_index, L) = DocsWithLevelHash(L)
    /\ \A S \in ServiceNames : IndexIds(service_index, S) = DocsWithServiceHash(S)
    /\ \A L \in LevelNames :
          (last.op = "query" /\ last.arg = q_level(L)) =>
              SeqSet(last.ret) = DocsWithLevelHash(L)
    /\ \A S \in ServiceNames :
          (last.op = "query" /\ last.arg = q_service(S)) =>
              SeqSet(last.ret) = DocsWithServiceHash(S)

\* query("level:k") has returned a document stored with level k and left
\* out a document stored without level
C4_Witness ==
    /\ last.op = "query"
    /\ last.arg = q_level(s_k)
    /\ \E id \in SeqSet(last.ret) : stored(id).level = Some(s_k)
    /\ \E id \in StoredIds : id \notin SeqSet(last.ret)

\* C6: for every token of the inverted index and every id in its posting, a
\* document with that id is stored and its token sequence contains the token,
\* in the LogDB of logdb.rs and in that of tll.rs.
C6_PostingIdsAreDocsWithToken ==
    /\ \A tok \in SeqSet(iter_keys(postings)) :
          \A id \in PostingIds(tok) :
              id \in StoredIds /\ tok \in SeqSet(stored(id).tokens)
    /\ \A tok \in DOMAIN tll.postings :
          \A id \in tll.postings[tok] :
              /\ Slab_contains(tll.docs, id)
              /\ tok \in SeqSet(Slab_get(tll.docs, id).v.tokens)

\* a posting holds two ids and another posting, made by upsert_token, none
C6_Witness ==
    /\ \E tok \in SeqSet(iter_keys(postings)) : Cardinality(PostingIds(tok)) = 2
    /\ \E tok \in SeqSet(iter_keys(postings)) : PostingIds(tok) = {}


\* C2: the n-th upsert_log or upsert_simple call returns n, so that the ids
\* count from 1, each is greater than all returned before, and none is
\* returned twice.
C2_NthUpsertReturnsN ==
    \A n \in 1..Len(issued) : issued[n] = U64(n)

\* the tokens of the stored documents of tll.rs, with the ids
TllDocTokens ==
    UNION {{<<tok, id>> : tok \in SeqSet(Slab_get(tll.docs, id).v.tokens)} :
              id \in Slab_keys(tll.docs)}

\* the <<token, id>> the postings of tll.rs hold
TllPosted ==
    UNION {{<<tok, id>> : id \in tll.postings[tok]} : tok \in DOMAIN tll.postings}

\* every token of every stored document of logdb.rs is posted with the id
LogdbTokensPosted ==
    \A id \in StoredIds :
        \A tok \in SeqSet(stored(id).tokens) : id \in PostingIds(tok)

\* C5 as stated: for every stored document and every token of its token
\* sequence, the inverted index holds a posting for the token that contains
\* the document's id.
C5_TokensPosted ==
    /\ LogdbTokensPosted
    /\ TllDocTokens \subseteq TllPosted

\* C5: for every stored document and every token of its token sequence, the
\* inverted index holds a posting for the token that contains the document's
\* id, unless evict_if_needed of tll.rs has removed that posting since the
\* document was stored.
C5_TokensPostedUnlessEvicted ==
    /\ LogdbTokensPosted
    /\ TllDocTokens \subseteq (TllPosted \cup evicted)

\* after an eviction a stored document of tll.rs has lost a posting and
\* another has all of its own
C5_Witness ==
    /\ \E e \in evicted : e \in TllDocTokens /\ e \notin TllPosted
    /\ \E id \in Slab_keys(tll.docs) :
          \A tok \in SeqSet(Slab_get(tll.docs, id).v.tokens) : <<tok, id>> \in TllPosted

\* the words of the phrase stand consecutively among the words of the content
ContainsPhrase(content, phrase) ==
    LET cw == split_whitespace(content)
        pw == split_whitespace(phrase)
    IN  \E i \in 0..(Len(cw) - Len(pw)) : SubSeq(cw, i + 1, i + Len(pw)) = pw

\* C7: a quoted phrase query returns every stored document whose content
\* contains the phrase's words consecutively.
C7_PhraseQueryFindsPhrase ==
    \A c \in Contents :
        (last.op = "query" /\ last.arg = q_phrase(c)) =>
            {id \in StoredIds : ContainsPhrase(stored(id).content, c)} \subseteq SeqSet(last.ret)

\* C8: query("A OR B") returns the union of the results of A and of B, for
\* bare words and field:value items A and B.
C8_OrIsUnion ==
    \A a, b \in Items :
        (last.op = "query" /\ last.arg = q_or(a, b)) =>
            SeqSet(last.ret) = SeqSet(query(a)) \cup SeqSet(query(b))

\* C9: query("NOT X") returns all stored ids except those query("X") returns.
C9_NotIsComplement ==
    \A x \in Items :
        (last.op = "query" /\ last.arg = q_not(x)) =>
            SeqSet(last.ret) = StoredIds \ SeqSet(query(x))

\* C10: query("A AND B") returns what query("A B") returns.
C10_AndKeywordIsJuxtaposition ==
    \A a, b \in Items :
        (last.op = "query" /\ last.arg = q_and(a, b)) =>
            SeqSet(last.ret) = SeqSet(query(q_both(a, b)))

C12_TimestampAtLeastZeroReturnsAll ==
    (last.op = "query" /\ last.arg = q_timestamp(ge_0)) =>
        SeqSet(last.ret) = StoredIds

\* the documents that are older than stale_secs, by the ids their upserts returned
StaleIssued == {issued[n] : n \in {m \in 1..Len(issued) : now - ingested[m] > StaleSecs}}

\* C13: after cleanup_stale() no document older than stale_secs remains:
\* get_content yields none for it and no query returns it.
C13_CleanupStaleRemovesStale ==
    (impl = "logdb" /\ last.op = "cleanup_stale") =>
        \A id \in StaleIssued :
            /\ get_content(id) = None
            /\ \A q \in Queries : id \notin SeqSet(query(q))

\* C14: after every upsert_log / upsert_simple call returns, the inverted
\* index holds at most max_postings tokens.
C14_TokensAtMostMaxPostings ==
    (impl = "logdb" /\ last.op \in {"upsert_log", "upsert_simple"}) =>
        postings.count <= MaxPostings

\* C15: a document ingested with upsert_simple(c) has exactly the token
\* sequence tokenize(c).
C15_UpsertSimpleTokensAreContentTokens ==
    (impl = "logdb" /\ last.op = "upsert_simple") =>
        stored(last.ret).tokens = tokenize_zero_copy_memo(last.arg)

\* the content an upsert call was given
upsert_content(call) == IF call.op = "upsert_log" THEN call.arg[1] ELSE call.arg

\* C16: get_content of the id an upsert of content c returned yields c, when
\* the upsert returns and in every later state, whatever call follows, and
\* get_content of an id no upsert has returned yields none.
C16_ContentKept ==
    /\ [](impl = "logdb" =>
            /\ last.op \in {"upsert_log", "upsert_simple"} =>
                   get_content(last.ret) = Some(upsert_content(last))
            /\ \A id \in DocIds :
                   id \notin SeqSet(issued) => get_content(id) = None)
    /\ [][impl = "logdb" =>
            \A id \in DocIds :
                get_content(id) # None => get_content(id)' = get_content(id)]_vars

\* get_content has returned the content of the first document after the
\* second was stored
C16_Witness ==
    /\ last.op = "get_content"
    /\ last.arg = U64(1)
    /\ last.ret = Some(s_aa)
    /\ Len(issued) = 2

\* the level: and service: queries, alone and together
FieldQueries == FieldItems \cup {q_both(q_level(l), q_service(v)) : l \in LevelNames, v \in ServiceNames}

\* C17: rebuild_indexes() changes no result of a level: or service: query
\* (query(q) is exec of parse_query(q)), and a second rebuild_indexes() right
\* after the first changes nothing.
C17_RebuildChangesNoResult ==
    [][last'.op = "rebuild_indexes" =>
          /\ \A node \in {parse_query_memo(q) : q \in FieldQueries} :
                 SeqSet(exec(node))' = SeqSet(exec(node))
          /\ last.op = "rebuild_indexes" =>
                 (level_index' = level_index /\ service_index' = service_index)]_vars

\* rebuild_indexes has rebuilt indexes that hold documents
C17_Witness ==
    /\ last.op = "rebuild_indexes"
    /\ filter_by_level(s_k) # <<>>
    /\ filter_by_service(s_b) # <<>>
    /\ level_index = create_index_for(docs, level_token)

\* the tokens of the inverted index
PostedTokens == SeqSet(keys(postings))

\* C18: no token of the inverted index maps to a posting with zero ids.
C18_NoEmptyPosting ==
    impl = "logdb" => \A tok \in PostedTokens : PostingIds(tok) # {}

\* C18, amended: a posting with zero ids comes into the inverted index only
\* by upsert_token or import_tokens, and the token of a posting with zero ids
\* is in no stored document.
C18_EmptyPostingOnlyReserved ==
    /\ [](impl = "logdb" =>
            \A tok \in PostedTokens : PostingIds(tok) = {} => DocsWithToken(tok) = {})
    /\ [][(impl = "logdb" /\ postings' # postings
                           /\ last'.op \notin {"upsert_token", "import_tokens"}) =>
            \A tok \in PostedTokens' :
                PostingIds(tok)' = {} => (tok \in PostedTokens /\ PostingIds(tok) = {})]_vars

\* upsert_token has reserved an empty posting beside the postings of a document
C18_Witness ==
    /\ last.op = "upsert_token"
    /\ last.ret \in PostedTokens
    /\ PostingIds(last.ret) = {}
    /\ StoredIds # {}

\* what to_set holds, where its table is one of those the tables are written
\* out for: the promoted set itself, or a set of 8 buckets
to_set_observable == post.large_docs.some \/ Len(post.small_docs) <= 8

\* C19: after any sequence of add(id) and remove(id) the contents get_docs,
\* to_set and empty observe are the ids added and not removed since, and no
\* id is listed twice, in the inline and in the promoted representation.
C19_PostingIsSet ==
    impl = "posting" =>
        /\ SeqSet(get_docs(post)) = members
        /\ NoDuplicates(get_docs(post))
        /\ empty(post) <=> members = {}
        /\ to_set_observable =>
               /\ SeqSet(keys(to_set(post))) = members
               /\ to_set(post).count = Cardinality(members)

\* the posting is promoted, and an id has been removed from it and others stay
C19_Witness ==
    /\ impl = "posting"
    /\ post.large_docs.some
    /\ last.op = "remove"
    /\ last.arg \notin members
    /\ Cardinality(members) >= 128

\* C20: after any sequence of insert, remove, update, entry(k).or_insert_with
\* and get, get(k) returns the value of the last insert or update of k not
\* followed by a remove, none otherwise, and len() is the number of keys
\* present.
C20_RefinesFiniteMap ==
    impl = "map" =>
        /\ \A k \in MapKeys :
               get(table, k) = IF k \in DOMAIN pairs THEN Some(pairs[k]) ELSE None
        /\ table.count = Cardinality(DOMAIN pairs)

(***************************************************************************)
(* Properties of BugguHashSet::retain                                      *)
(***************************************************************************)

\* the keys the map holds, as get sees them
HeldKeys(set) == {k \in MapKeys : get(set, k).some}

\* C21: retain(f) keeps every entry of the map that f holds of, with its
\* value, and takes out every other entry; len() is then the number of the
\* entries kept, and get(k) returns the kept value of a kept key and nothing
\* for a key taken out.
C21_RetainKeepsExactly ==
    [][(impl = "map" /\ last'.op = "retain") =>
        /\ \A k \in MapKeys :
              get(table, k)' = IF get(table, k).some /\ holds(last'.arg, k, get(table, k).v)
                               THEN get(table, k)
                               ELSE None
        /\ table'.count = Cardinality({k \in HeldKeys(table) : holds(last'.arg, k, get(table, k).v)})
        /\ table'.count = Len(all_entries(table)')]_vars

\* a retain has taken a bucket of more than INLINE_BUCKET_SIZE entries down to
\* an Inline bucket, keeping some entries and taking out others
C21_Witness ==
    /\ impl = "map"
    /\ last.op = "retain"
    /\ last.len > INLINE_BUCKET_SIZE
    /\ table.count > 0
    /\ table.count < last.len
    /\ \E i \in DOMAIN table.storage : table.storage[i].kind = "Inline"

(***************************************************************************)
(* Properties of the set operations of BugguHashSet                        *)
(***************************************************************************)

\* the keys of a map
KeySet(set) == SeqSet(keys(set))

\* the call returned a map, with each key once
ReturnedSet(r) ==
    /\ "count" \in DOMAIN r
    /\ NoDuplicates(keys(r))
    /\ r.count = Len(keys(r))

\* C22: for any two maps A and B, of any bucket counts, the keys of
\* A.intersect_with(B) are those in both, of A.union_with(B) those in either,
\* of A.fast_difference(B) those of A not in B, each key once; intersect_with
\* and union_with give the same keys with the operands swapped.
C22_SetAlgebra ==
    impl = "sets" =>
        /\ last.op = "intersect_with" =>
              /\ ReturnedSet(last.ret)
              /\ KeySet(last.ret) = KeySet(operands.a) \cap KeySet(operands.b)
              /\ KeySet(last.ret) = KeySet(intersect_with(operands.b, operands.a))
        /\ last.op = "union_with" =>
              /\ ReturnedSet(last.ret)
              /\ KeySet(last.ret) = KeySet(operands.a) \cup KeySet(operands.b)
              /\ KeySet(last.ret) = KeySet(union_with(operands.b, operands.a))
        /\ last.op = "fast_difference" =>
              /\ ReturnedSet(last.ret)
              /\ KeySet(last.ret) = KeySet(operands.a) \ KeySet(operands.b)

(***************************************************************************)
(* Properties of codec.rs                                                  *)
(***************************************************************************)

\* C23: decode(encode_full(doc, tokens)) is Full{doc, tokens}, the tokens in
\* their order, and the first encoded byte is 0x00; decode(encode_diff(doc,
\* remove, add)) is Diff{doc, remove, add} and the first encoded byte is 0x01.
C23_CodecRoundTrip ==
    impl = "codec" =>
        /\ last.op = "encode_full" => last.ret[1] = 0
        /\ last.op = "encode_diff" => last.ret[1] = 1
        /\ (last.op = "decode" /\ last.from = "encode_full") =>
              last.ret = Frame(Full(operands.doc, operands.add))
        /\ (last.op = "decode" /\ last.from = "encode_diff") =>
              last.ret = Frame(Diff(operands.doc, operands.remove, operands.add))

\* a Diff frame of two lists of MaxTokens tokens, with a token of ten bytes in
\* each, has been encoded and decoded
C23_Witness ==
    /\ impl = "codec"
    /\ last.op = "decode"
    /\ last.from = "encode_diff"
    /\ last.ret.ok
    /\ Len(last.ret.v.remove) = MaxTokens
    /\ Len(last.ret.v.add) = MaxTokens
    /\ last.ret.v.remove[1] # last.ret.v.remove[2]
    /\ U64_MAX \in SeqSet(last.ret.v.remove) \cap SeqSet(last.ret.v.add)

\* C24: read_uvar applied to the bytes of write_uvar(n), whatever follows
\* them, returns n and leaves exactly what follows; write_uvar emits between
\* one and ten bytes, every byte but the last with its top bit set and the
\* last with it clear.
C24_VarintRoundTrip ==
    impl = "codec" =>
        /\ last.op = "write_uvar" =>
              /\ Len(last.ret) \in 1..10
              /\ \A i \in 1..Len(last.ret) : (last.ret[i] >= 128) <=> (i < Len(last.ret))
        /\ last.op = "read_uvar" => last.ret = Ok(last.n, last.tail)

\* u64::MAX, written in ten bytes, has been read back from in front of other
\* bytes
C24_Witness ==
    /\ impl = "codec"
    /\ last.op = "read_uvar"
    /\ last.n = U64_MAX
    /\ last.tail = <<255, 1>>
    /\ Len(last.arg) = 12
    /\ last.ret.ok

\* C25: decode of a buffer whose first byte is a tag other than TAG_FULL and
\* TAG_DIFF fails with InvalidData("bad tag"), whatever follows the tag,
\* nothing included.
C25_BadTag ==
    (impl = "codec" /\ last.op = "decode" /\ last.from = "retag") =>
        last.ret = InvalidData("bad tag")

\* C26: decode of a strict prefix of the bytes of encode_full or encode_diff,
\* the empty one included, fails with UnexpectedEof.
C26_TruncatedEof ==
    (impl = "codec" /\ last.op = "decode" /\ last.from = "truncate") =>
        last.ret = UnexpectedEof

\* a frame cut inside a token of its second list has been decoded
C26_Witness ==
    /\ impl = "codec"
    /\ last.op = "decode"
    /\ last.from = "truncate"
    /\ Len(last.arg) > 14
    /\ last.arg[1] = TAG_DIFF
    /\ last.arg[Len(last.arg)] >= 128
    /\ last.ret = UnexpectedEof

----------------------------------------------------------------------------
(* ufhg.rs and utils/buggu_ultra_fast_hash.rs: the hash functions on their own *)

\* result * 10 + pos and result * 100 + pos are plain u64 arithmetic: TRUE when
\* the step leaves u64, where a build with overflow checks panics and a build
\* without them wraps
hash_step_overflows(result, pos) ==
    The({MulOverflows(r, k) \/ AddCarryOut(wrapping_mul(r, k), U64(pos)) :
         r \in {result}, k \in {U64(IF pos < 10 THEN 10 ELSE 100)}})

\* the number of bytes the loop of lightning_hash_str accumulates before it
\* ends or breaks
leading_letters(s) ==
    IF \E i \in 1..Len(s) : letter_pos(s[i]) = 0
    THEN (CHOOSE i \in 1..Len(s) :
              letter_pos(s[i]) = 0 /\ \A j \in 1..(i - 1) : letter_pos(s[j]) # 0) - 1
    ELSE Len(s)

\* TRUE when one of the first n steps of the loop overflows
RECURSIVE hash_overflows(_, _)
hash_overflows(s, n) ==
    /\ n > 0
    /\ \/ hash_overflows(s, n - 1)
       \/ hash_step_overflows(hash_letters(s, n - 1), letter_pos(s[n]))

\* lightning_hash_str in a build with overflow checks (checked) or without
lightning_hash_str_in(checked, s) ==
    IF checked /\ hash_overflows(s, leading_letters(s)) THEN Panic
    ELSE Returned(lightning_hash_str(s))

\* TRUE when the hash of one of the words of s overflows
word_overflows(s) ==
    \E w \in SeqSet(words_from(s, 1)) : hash_overflows(w, leading_letters(w))

tokenize_zero_copy_in(checked, message) ==
    IF checked /\ word_overflows(message) THEN Panic ELSE Returned(tokenize_zero_copy(message))

string_to_u64_to_seq_hash_in(checked, s) ==
    IF checked /\ word_overflows(s) THEN Panic ELSE Returned(string_to_u64_to_seq_hash(s))

\* the hashes of the words of s, in order
word_hashes(s) ==
    The({[i \in 1..Len(ws) |-> lightning_hash_str(ws[i])] @@ <<>> : ws \in {words_from(s, 1)}})

\* the longest string of one repeated letter
MaxLetters == 10

\* the longest string over HashAlphabet
MaxShort == 3

HashAlphabet == {"e", "E", "z", "-", " "}

s_mixed == <<"a", "b", "-", "1", "c", "d", "9">>

\* the strings the hash functions are applied to: the short strings over
\* HashAlphabet, the words of one letter, the prefixes of s_mixed and those
\* with one byte changed, and a word in both cases
HashStrings ==
    UNION {[1..n -> HashAlphabet] : n \in 0..MaxShort}
    \cup {[i \in 1..n |-> c] : n \in 4..MaxLetters, c \in {"a", "s", "Z"}}
    \cup {SubSeq(s_mixed, 1, n) : n \in 1..7}
    \cup {[SubSeq(s_mixed, 1, n) EXCEPT ![p] = "_"] : n \in 1..7, p \in 1..7}
    \cup {<<"e", "r", "r", "o", "r">>, <<"E", "R", "R", "O", "R">>}

HashToken ==
    \E checked \in BOOLEAN :
        /\ impl = "hash"
        /\ last' = [op |-> "lightning_hash_str", arg |-> operands.s,
                    ret |-> lightning_hash_str_in(checked, operands.s)]
        /\ UNCHANGED <<logdb_vars, issued, ingested, impl, tll_vars, unit_vars>>

HashShortStr ==
    /\ impl = "hash"
    /\ last' = [op |-> "lightning_hash_str_64", arg |-> operands.s,
                ret |-> lightning_hash_str_64(operands.s)]
    /\ UNCHANGED <<logdb_vars, issued, ingested, impl, tll_vars, unit_vars>>

PhraseHash ==
    \E checked \in BOOLEAN :
        /\ impl = "hash"
        /\ last' = [op |-> "string_to_u64_to_seq_hash", arg |-> operands.s,
                    ret |-> string_to_u64_to_seq_hash_in(checked, operands.s)]
        /\ UNCHANGED <<logdb_vars, issued, ingested, impl, tll_vars, unit_vars>>

SequenceHash ==
    /\ impl = "hash"
    /\ last' = [op |-> "sequence_hash", arg |-> word_hashes(operands.s),
                ret |-> sequence_hash(word_hashes(operands.s))]
    /\ UNCHANGED <<logdb_vars, issued, ingested, impl, tll_vars, unit_vars>>

Tokenize ==
    \E checked \in BOOLEAN :
        /\ impl = "hash"
        /\ last' = [op |-> "tokenize_zero_copy", arg |-> operands.s,
                    ret |-> tokenize_zero_copy_in(checked, operands.s)]
        /\ UNCHANGED <<logdb_vars, issued, ingested, impl, tll_vars, unit_vars>>

ParseQuery ==
    /\ impl \in {"hash", "parse"}
    /\ last' = [op |-> "parse_query", arg |-> operands.s, ret |-> parse_query(operands.s)]
    /\ UNCHANGED <<logdb_vars, issued, ingested, impl, tll_vars, unit_vars>>

NextHash ==
    \/ HashToken
    \/ HashShortStr
    \/ PhraseHash
    \/ SequenceHash
    \/ Tokenize
    \/ ParseQuery

InitHash ==
    /\ Built
    /\ impl = "hash"
    /\ memo = <<>>
    /\ operands \in [s : HashStrings]

SpecHash == InitHash /\ [][NextHash]_vars

\* the position of a letter in the alphabet, the case left aside
alphabet_position(c) == IF byte(c) >= 97 THEN byte(c) - 96 ELSE byte(c) - 64

\* result * 10 + pos below 10, else result * 100 + pos, over the alphabet
\* positions of the first n letters, from 0
RECURSIVE position_fold(_, _)
position_fold(s, n) ==
    IF n = 0 THEN U64(0)
    ELSE The({hash_step(r, alphabet_position(s[n])) : r \in {position_fold(s, n - 1)}})

OnlyLetters(s) == \A i \in 1..Len(s) : byte(s[i]) \in (65..90) \cup (97..122)

\* s with its capital letters made small
to_lowercase(s) ==
    [i \in 1..Len(s) |-> IF byte(s[i]) \in 65..90 THEN LowerCase[byte(s[i]) - 64] ELSE s[i]]

\* C27: on a string of ASCII letters only, lightning_hash_str is the fold of
\* result * 10 + pos (pos < 10) or result * 100 + pos over the alphabet
\* positions 1..26 of the letters, whatever their case, from 0; it is the
\* hash of the same word in small letters, and the hash of "" is 0.
C27_HashTokenFold ==
    (impl = "hash" /\ last.op = "lightning_hash_str" /\ OnlyLetters(last.arg)
        /\ ~ last.ret.panic) =>
        /\ last.ret.v = position_fold(last.arg, Len(last.arg))
        /\ last.ret.v = lightning_hash_str(to_lowercase(last.arg))
        /\ last.arg = <<>> => last.ret.v = U64(0)

\* the left fold h * 31 + x over a list of hashes, from 0
RECURSIVE fold31(_, _)
fold31(hs, n) ==
    IF n = 0 THEN U64(0)
    ELSE The({wrapping_add(wrapping_mul(h, U64(31)), hs[n]) : h \in {fold31(hs, n - 1)}})

C29_NoPanic ==
    impl = "hash" =>
        /\ last.op \in {"lightning_hash_str", "tokenize_zero_copy"} => ~ last.ret.panic
        /\ last.op = "parse_query" =>
              last.ret.type \in {"Term", "Phrase", "FieldTerm", "NumericRange",
                                 "Contains", "And", "Or", "Not"}

\* the first min(len, 6) bytes of s, little-endian in a u64
first_six(s) == [i \in 1..8 |-> IF i <= Len(s) /\ i <= 6 THEN byte(s[i]) ELSE 0]

\* C30: lightning_hash_str_64(s) is buggu_hash_u64_minimal of the first
\* min(len(s), 6) bytes of s packed little-endian into a u64, for every
\* length, and FAST_K1 for the empty string.
C30_ShortStrPacksSixBytes ==
    (impl = "hash" /\ last.op = "lightning_hash_str_64"
        /\ (last.arg = <<>> \/ ~ OnlyLetters(last.arg))) =>
        last.ret = IF last.arg = <<>> THEN FAST_K1
                   ELSE buggu_hash_u64_minimal(first_six(last.arg))

s_unknown == <<"u", "n", "k", "n", "o", "w", "n">>

\* C31: an item f:v whose field f is none of level, service, contains,
\* phrase, fuzzy, regex and timestamp is parsed as FieldTerm("unknown", v),
\* and its query returns exactly the documents that are in the posting of
\* the field token and in the posting of the hash of v.
C31_OtherFieldIsFieldTerm ==
    (impl = "logdb" /\ last.op = "query" /\ last.arg = q_other) =>
        /\ parse_query_memo(last.arg) = FieldTerm(s_unknown, s_aa)
        /\ SeqSet(last.ret) = PostingIds(lightning_hash_str(s_unknown))
                                \cap PostingIds(lightning_hash_str(s_aa))
        /\ NoDuplicates(last.ret)

----------------------------------------------------------------------------
(* config.rs: LogConfig.services on its own *)

\* LogConfig::service_id
service_id(service) ==
    The({IF id.some THEN id.v ELSE 0 : id \in {get(services, lightning_hash_str_memo(service))}})

\* LogConfig::register_service: the id returned and the registry after the call
register_service(service) ==
    The({The({IF existing_id.some
              THEN [ret |-> existing_id.v, services |-> services]
              ELSE The({[ret |-> new_id, services |-> insert(services, service_hash, new_id)] :
                        new_id \in {services.count % 256}}) :
              existing_id \in {get(services, service_hash)}}) :
         service_hash \in {lightning_hash_str_memo(service)}})

s_e == <<"e">>

\* service: &str of register_service and service_id; "k" and "aa" have the
\* same lightning_hash_str
ConfigNames == {s_k, s_aa, s_b, s_zz, s_e}

RegisterService ==
    \E service \in ConfigNames :
        /\ impl = "config"
        /\ \E r \in {register_service(service)} :
              /\ services' = r.services
              /\ registered' = IF service \in DOMAIN registered THEN registered
                               ELSE (service :> r.ret) @@ registered
              /\ last' = [op |-> "register_service", arg |-> service, ret |-> r.ret,
                          known |-> service \in DOMAIN registered,
                          len |-> Cardinality(DOMAIN registered),
                          same |-> r.services = services]
        /\ UNCHANGED <<logdb_vars, issued, ingested, impl, tll_vars,
                       post, members, fresh, table, pairs, operands>>

ServiceId ==
    \E service \in ConfigNames :
        /\ impl = "config"
        /\ last' = [op |-> "service_id", arg |-> service, ret |-> service_id(service)]
        /\ UNCHANGED <<logdb_vars, issued, ingested, impl, tll_vars, unit_vars>>

NextConfig ==
    \/ RegisterService
    \/ ServiceId

\* the tables of the hashes of the names and of their bucket indices
ConfigMemo(names) ==
    The({[hash |-> hashes,
          rank |-> [k \in {4096} \X Range(hashes) |-> rank_of(k[1], k[2])] @@ <<>>] :
         hashes \in {[s \in names |-> lightning_hash_str(s)] @@ <<>>}})

InitConfig == Idle /\ impl = "config" /\ memo = ConfigMemo(ConfigNames)

SpecConfig == InitConfig /\ [][NextConfig]_vars

\* C32: register_service of a name registered before returns the id the name
\* got and leaves the registry as it was; a new name gets the next id of the
\* sequence 0, 1, 2, ...; so two different names never hold the same id.
C32_RegisterServiceSequential ==
    impl = "config" =>
        /\ last.op = "register_service" =>
              IF last.known THEN last.ret = registered[last.arg] /\ last.same
              ELSE last.ret = last.len
        /\ \A a, b \in DOMAIN registered : a # b => registered[a] # registered[b]

\* C33: insert(k, v) on a map made by new(n) returns, for every bucket count
\* n >= 0 and at every load, and get(k) of the map gives v afterwards.
C33_InsertNeverFails ==
    (impl = "sets" /\ last.op = "insert") =>
        /\ ~ last.ret.panic
        /\ last.ret.v.table_size > 0
        /\ get(last.ret.v, last.arg) = Some(Unit)

\* C34: after any sequence of insert, entry-insert, remove and retain, every
\* key is in at most one entry of the whole table, every Inline bucket holds
\* between 1 and 4 entries, and every Overflow bucket holds at least 5.
C34_BucketShape ==
    impl = "map" =>
        /\ \A i \in DOMAIN table.storage :
              /\ table.storage[i].kind \in {"Inline", "Overflow"}
              /\ table.storage[i].kind = "Inline" =>
                    Len(table.storage[i].entries) \in 1..INLINE_BUCKET_SIZE
              /\ table.storage[i].kind = "Overflow" =>
                    Len(table.storage[i].entries) > INLINE_BUCKET_SIZE
        /\ NoDuplicates(entry_keys(all_entries(table), Len(all_entries(table))))

\* a remove has left four entries in a bucket that held five, now Inline
C34_Witness ==
    /\ impl = "map"
    /\ last.op = "remove"
    /\ last.ret.some
    /\ table.count = INLINE_BUCKET_SIZE
    /\ \E i \in DOMAIN table.storage :
          table.storage[i].kind = "Inline" /\ Len(table.storage[i].entries) = INLINE_BUCKET_SIZE

\* C35: a posting that has been given at most 128 different ids, however
\* often each, is in the inline state, and one that has been given 129 or
\* more different ids is in the promoted state.
C35_PromotedAt129th ==
    impl = "posting" => (post.large_docs.some <=> fresh >= 129)

\* C36: in every state of the map keys() and iter_keys() each yield every
\* stored key exactly once, len() keys in all, in the same bucket order, and
\* iter_mut() visits the entries of the same keys in that order.
C36_TraversalComplete ==
    impl = "map" =>
        /\ SeqSet(keys(table)) = {k \in MapKeys : get(table, k).some}
        /\ NoDuplicates(keys(table))
        /\ Len(keys(table)) = table.count
        /\ iter_keys(table) = keys(table)
        /\ iter_mut(table) = all_entries(table)
        /\ entry_keys(iter_mut(table), Len(iter_mut(table))) = keys(table)

\* five keys are held in one bucket, and the key 1, put in again after a
\* remove, is the last of the traversal
C36_Witness ==
    /\ impl = "map"
    /\ table.count = 5
    /\ Len(iter_keys(table)) = 5
    /\ iter_keys(table)[5] = U64(1)

\* C37: every id query returns, for any query string and in any state of the
\* index, is the id of a stored document, between 1 and the id assigned last,
\* and no id is returned twice; query_content returns one content string for
\* each id query returns, the content of that document.
C37_ResultsAreStoredIds ==
    impl = "logdb" =>
        /\ last.op = "query" =>
              /\ NoDuplicates(last.ret)
              /\ \A i \in 1..Len(last.ret) :
                    /\ last.ret[i] \in {U64(n) : n \in 1..Len(issued)}
                    /\ get(docs, last.ret[i]).some
        /\ last.op = "query_content" =>
              /\ Len(last.ret) = Len(query(last.arg))
              /\ \A i \in 1..Len(last.ret) :
                    last.ret[i] = get(docs, query(last.arg)[i]).v.content

\* a query has returned two ids, and query_content two content strings
C37_Witness ==
    /\ impl = "logdb"
    /\ last.op = "query_content"
    /\ Len(last.ret) >= 2
    /\ Len(query(last.arg)) >= 2

(***************************************************************************)
(* query.rs: the parser with AND, OR and NOT, which no module declares      *)
(***************************************************************************)

Fuzzy(w, distance) == [type |-> "Fuzzy", w |-> w, distance |-> distance]
Regex(r) == [type |-> "Regex", r |-> r]

s_phrase == <<"p", "h", "r", "a", "s", "e">>
s_fuzzy == <<"f", "u", "z", "z", "y">>
s_regex == <<"r", "e", "g", "e", "x">>

\* str::to_uppercase, for ASCII
to_uppercase(s) ==
    [i \in 1..Len(s) |-> IF byte(s[i]) \in 97..122 THEN Printable[byte(s[i]) - 63] ELSE s[i]]

\* the position of the first '~' of a value, 0 when it has none
tilde_at(val) ==
    IF \E i \in 1..Len(val) : val[i] = "~"
    THEN CHOOSE i \in 1..Len(val) : val[i] = "~" /\ \A j \in 1..(i - 1) : val[j] # "~"
    ELSE 0

\* str::parse::<u8>().unwrap_or(default)
parse_u8_or(s, default) ==
    The({IF less64(v, U64(256)) THEN v[1] ELSE default : v \in {parse_u64_or(s, U64(256))}})

\* the node a field:value token pushes in query.rs
query_rs_field_nodes(field, val) ==
    IF field = s_level THEN <<FieldTerm(s_level, val)>>
    ELSE IF field = s_service THEN <<FieldTerm(s_service, val)>>
    ELSE IF field = s_contains THEN <<Contains(val)>>
    ELSE IF field = s_phrase THEN <<Phrase(val)>>
    ELSE IF field = s_fuzzy
         THEN IF tilde_at(val) > 0
              THEN <<Fuzzy(SubSeq(val, 1, tilde_at(val) - 1),
                           parse_u8_or(SubSeq(val, tilde_at(val) + 1, Len(val)), 1))>>
              ELSE <<Fuzzy(val, 1)>>
    ELSE IF field = s_regex THEN <<Regex(val)>>
    ELSE IF field = s_timestamp
         THEN IF starts_with(val, <<">", "=">>)
              THEN <<NumericRange(s_timestamp, parse_u64_or(SubSeq(val, 3, Len(val)), U64(0)), U64_MAX)>>
              ELSE IF starts_with(val, <<"<", "=">>)
              THEN <<NumericRange(s_timestamp, U64(0), parse_u64_or(SubSeq(val, 3, Len(val)), U64_MAX))>>
              ELSE <<NumericRange(s_timestamp, parse_u64_or(val, U64(0)), parse_u64_or(val, U64(0)))>>
    ELSE <<FieldTerm(s_unknown, val)>>

\* the nodes after the tokens from i on, with those pushed so far: OR pops
\* the last node and pushes it back only inside an Or with the next token
RECURSIVE query_rs_parse_from(_, _, _)
query_rs_parse_from(toks, i, nodes) ==
    IF i > Len(toks) THEN nodes
    ELSE LET tok == toks[i]
             c   == colon_at(tok)
         IN  IF c > 0
             THEN LET field == SubSeq(tok, 1, c - 1)
                      val   == SubSeq(tok, c + 1, Len(tok))
                      open  == starts_with(val, <<"\"">>) /\ ~ ends_with(val, <<"\"">>)
                      end   == IF open THEN quote_end(toks, i + 1) ELSE i
                      full  == IF open THEN push_tokens(val, toks, i + 1, end) ELSE val
                  IN  query_rs_parse_from(toks, end + 1,
                          nodes \o query_rs_field_nodes(field, trim_matches(full, "\"")))
             ELSE IF starts_with(tok, <<"\"">>)
             THEN query_rs_parse_from(toks, i + 1, Append(nodes, Phrase(trim_matches(tok, "\""))))
             ELSE IF to_uppercase(tok) = <<"A", "N", "D">>
             THEN query_rs_parse_from(toks, i + 1, nodes)
             ELSE IF to_uppercase(tok) = <<"O", "R">>
             THEN IF nodes = <<>> THEN query_rs_parse_from(toks, i + 1, nodes)
                  ELSE IF i + 1 > Len(toks)
                  THEN query_rs_parse_from(toks, i + 1, SubSeq(nodes, 1, Len(nodes) - 1))
                  ELSE query_rs_parse_from(toks, i + 2,
                          Append(SubSeq(nodes, 1, Len(nodes) - 1),
                                 Or(<<nodes[Len(nodes)], Term(toks[i + 1])>>)))
             ELSE IF to_uppercase(tok) = <<"N", "O", "T">>
             THEN IF i + 1 > Len(toks) THEN query_rs_parse_from(toks, i + 1, nodes)
                  ELSE query_rs_parse_from(toks, i + 2, Append(nodes, Not(Term(toks[i + 1]))))
             ELSE query_rs_parse_from(toks, i + 1, Append(nodes, Term(tok)))

\* parse_query of query.rs
query_rs_parse_query(q) ==
    The({IF Len(nodes) = 1 THEN nodes[1]
         ELSE IF Len(nodes) = 0 THEN Term(<<>>)
         ELSE And(nodes) : nodes \in {query_rs_parse_from(split_whitespace(q), 1, <<>>)}})

\* the words the parsed queries are made of, and the queries: a word alone,
\* two words, and words with OR, AND and NOT before, between and after them
ParseWords == {s_aa, s_b, q_level(s_k), q_timestamp(<<"7">>)}
ParseInputs ==
    ParseWords
    \cup {q_both(a, b) : a, b \in ParseWords}
    \cup {q_or(a, b) : a, b \in ParseWords}
    \cup {q_and(a, b) : a, b \in ParseWords}
    \cup {q_not(a) : a \in ParseWords}
    \cup {a \o sp \o <<"O", "R">> : a \in ParseWords}
    \cup {<<"O", "R">> \o sp \o a : a \in ParseWords}

ParseQueryRs ==
    /\ impl = "parse"
    /\ last' = [op |-> "query_rs_parse_query", arg |-> operands.s,
                ret |-> query_rs_parse_query(operands.s)]
    /\ UNCHANGED <<logdb_vars, issued, ingested, impl, tll_vars, unit_vars>>

NextParse ==
    \/ ParseQuery
    \/ ParseQueryRs

InitParse ==
    /\ Built
    /\ impl = "parse"
    /\ memo = <<>>
    /\ operands \in [s : ParseInputs]

SpecParse == InitParse /\ [][NextParse]_vars

\* the leaves of a syntax tree, from left to right
RECURSIVE ast_leaves(_)
ast_leaves(node) ==
    IF node.type \in {"And", "Or"}
    THEN IF Len(node.children) = 0 THEN <<>>
         ELSE ast_leaves(node.children[1])
                 \o ast_leaves([node EXCEPT !.children = Tail(node.children)])
    ELSE IF node.type = "Not" THEN ast_leaves(node.child)
    ELSE <<node>>

\* the word is AND, OR or NOT
is_operator(tok) == to_uppercase(tok) \in {<<"A", "N", "D">>, <<"O", "R">>, <<"N", "O", "T">>}

\* the leaf stands for a word of the query that is no operator
is_operand_leaf(node) ==
    ~ (node.type = "Term" /\ (node.w = <<>> \/ is_operator(node.w)))

\* C38: the parser drops no operand: every word of the query that is not
\* AND, OR or NOT has its node in the syntax tree, also the word before an OR
\* that ends the query, the word after an OR that begins it, and timestamp:K.
C38_NoOperandDropped ==
    (impl = "parse" /\ last.op \in {"parse_query", "query_rs_parse_query"}) =>
        Len(SelectSeq(ast_leaves(last.ret), is_operand_leaf))
            = Len(SelectSeq(split_whitespace(last.arg), LAMBDA tok : ~ is_operator(tok)))

\* C39: decode reads the fields of the frame and ignores what follows: for
\* the bytes f of encode_full or encode_diff and any bytes t, decode(f ++ t)
\* returns the frame decode(f) returns, not an error.
C39_TrailingBytesIgnored ==
    (impl = "codec" /\ last.op = "decode" /\ last.from = "extend") =>
        /\ last.arg[1] = TAG_FULL =>
              /\ \E tail \in Trailers \ {<<>>} :
                    last.arg = encode_full(operands.doc, operands.add) \o tail
              /\ last.ret = decode(encode_full(operands.doc, operands.add))
              /\ last.ret = Frame(Full(operands.doc, operands.add))
        /\ last.arg[1] = TAG_DIFF =>
              /\ \E tail \in Trailers \ {<<>>} :
                    last.arg = encode_diff(operands.doc, operands.remove, operands.add) \o tail
              /\ last.ret = decode(encode_diff(operands.doc, operands.remove, operands.add))
              /\ last.ret = Frame(Diff(operands.doc, operands.remove, operands.add))

\* a Full frame of MaxTokens tokens followed by two more bytes, the first
\* with its top bit set, has been decoded to the frame
C39_Witness ==
    /\ impl = "codec"
    /\ last.op = "decode"
    /\ last.from = "extend"
    /\ last.arg[1] = TAG_FULL
    /\ SubSeq(last.arg, Len(last.arg) - 1, Len(last.arg)) = <<255, 1>>
    /\ last.ret.ok
    /\ Len(last.ret.v.tokens) = MaxTokens

====
